---- MODULE Spec2Model ----
(***************************************************************************)
(* The SRS client session of DATIS: crates/srs/src/voice_stream.rs and     *)
(* crates/srs/src/client.rs.                                               *)
(*                                                                         *)
(* A VoiceStream owns                                                      *)
(*   - the driver ("heartbeat"), a stored future that only runs while      *)
(*     Stream::poll_next polls it,                                         *)
(*   - the sending half tx2 of a bounded futures mpsc channel whose        *)
(*     receiving half rx and second sender tx live inside the driver,      *)
(*   - the packet_id counter of the voice sink.                            *)
(* The model follows the driver statement by statement: every await is a   *)
(* value of pc, every arm of the select! is an action.                     *)
(*                                                                         *)
(* Widths.  packet_id is a u64 in the source.  TLC's integers are 32 bit,  *)
(* so the counter is kept at IdBits bits; wrapping_add is addition modulo  *)
(* 2^IdBits.  The channel buffer is 32 in the source; the channel          *)
(* algorithm is the same for every buffer size and is run at ChanBuffer.   *)
(***************************************************************************)
EXTENDS Integers, Sequences, FiniteSets, TLC

\* ------------------------------------------------------------------ bounds
IdBits == 1
ChanBuffer == 1
MaxChunks == 3
MaxTicks == 2
MaxLines == 3
MaxUnits == 3

\* --------------------------------------------------------------- constants
SRS_VERSION == "1.9.0.0"
PeerVersions == {"1.9.0.0", "1.8.0.1"}
\* LatLngPosition values: LatLngPosition::default() and another one
Positions == {[lat |-> 0, lng |-> 0, alt |-> 0], [lat |-> 1, lng |-> 1, alt |-> 1]}
GameMessages == {"g1", "g2"}
NoGameMsg == "None"
NoPos == [lat |-> -1, lng |-> -1, alt |-> -1]
NoThread == "none"

\* The allocations an Arc<RwLock<LatLngPosition>> may point to, and the
\* handles of a session.  Arc_new is the allocation Client::new makes.
Cells == {"arc0", "arc1"}
Arc_new == "arc0"

\* #[derive(Clone)] on Client: the Arc is cloned, the allocation shared
Client_clone(a) == a

\* variant: the handle is a copy of the position in an allocation of its own
position_handle_copy(a) == "arc1"

\* Client::position_handle: self.pos.clone()
position_handle(a) == a

\* the driver owns the Client given to start(); the VoiceStream keeps client2
client_pos == Arc_new
client2_pos == Client_clone(client_pos)

\* what the host writes through: a handle taken before start(), or a clone
HostHandles == {position_handle(client_pos), Client_clone(client_pos)}

Writers == {"w1", "w2"}
Readers == {"r1", "r2"}
Threads == Writers \cup Readers
IdMod == 2 ^ IdBits
Senders == {"tx", "tx2"}
NoPacket == [kind |-> "none"]
NoMessage == [msg_type |-> "none"]
NoUnit == [id |-> 0, name |-> "None"]
\* create_sguid(): 22 characters of [A-Za-z0-9]
create_sguid == {"Ab3dE6gH9jKlMn0pQrStUv", "zY8xW7vU6tS5rQ4pO3nM2l"}
Names == {"DCS Radio Station"}
DefaultFreq == 251000000
Freqs == {DefaultFreq, 124500000}
Modulations == {"AM", "FM", "fm"}
Units == {NoUnit, [id |-> 42, name |-> "Batumi"]}

VARIABLES
    \* Client (client.rs) -------------------------------------------------
    \* The driver owns `client`, the VoiceStream owns its clone `client2`
    \* (line 73).  No method of Client writes sguid, name, freq or m, and
    \* set_unit needs the &mut Client that start() consumes: the two copies of
    \* these fields stay what they were at the clone and are kept once.
    sguid,
    name,
    freq,
    m,
    unit,
    pos,               \* the LatLngPosition inside each Arc<RwLock<..>>
    \* the RwLock around pos and the threads inside set_position / position
    lock,              \* who holds the lock: one writer or a set of readers
    tpc,               \* where each thread is inside its call
    tval,              \* a writer's argument, a reader's copy in the making
    lastRead,          \* what each reader's last position() returned
    \* VoiceStream::new arguments ------------------------------------------
    recv_voice,        \* game_source.is_some()
    shutdown_signal,   \* oneshot: "armed", "fired" or "dropped" (sender dropped)
    \* VoiceStream fields --------------------------------------------------
    packet_id,         \* VoiceStream.packet_id
    \* the heartbeat future ------------------------------------------------
    pc,                \* the await (or select!) the driver is suspended at
    polling,           \* a poll_next call is inside heartbeat.poll_unpin
    old_pos,
    new_pos,
    outMsg,            \* the item of the messages_sink.send future in flight
    last_game_msg,
    los_enabled,
    distance_enabled,
    game_terminated,   \* game_source yielded None (FusedStream terminated)
    inflight,          \* the item of the voice_sink.send future in flight
    hbResult,          \* Output of the heartbeat future once it completed
    tcpWriteShut,      \* the TCP write half was shut down by the driver
    \* mpsc::channel(32) ---------------------------------------------------
    queue,             \* message_queue
    parked,            \* sender_task.is_parked of each sender
    parkedQ,           \* parked_queue
    chanOpen,          \* the receiver rx is alive
    \* the timers ----------------------------------------------------------
    ticksLeft,         \* timer ticks the clock still delivers
    \* observation (what the peers and the caller have seen) ---------------
    tcpOut,            \* control messages written to the TCP socket, in order
    udpOut,            \* voice packets written to the UDP socket, in order
    pingsOut,          \* number of Ping packets written to the UDP socket
    lastYield,         \* what the last poll_next returned ("none" while one runs)
    exitCause,         \* the event by which the driver left
    rxVersion,         \* version field of the VersionMismatch message decoded
    ioFailed,          \* the awaited operation that reported an error
    nSubmitted,        \* number of start_send calls so far
    lastPacket,        \* the VoicePacket built by the last start_send
    lastSendResult,    \* what the last start_send returned
    \* mission.rs: the directive extractors ----------------------------------
    config,            \* the text given to an extractor (unit name or briefing)
    extracted,         \* the extractor applied to it and what it returned
    airfields,         \* display names of the airdromes of the loaded terrain
    mission_units      \* the units of the mission, in the order of the tables

vars == << sguid, name, freq, m, unit, pos, lock, tpc, tval, lastRead, recv_voice, shutdown_signal, packet_id, pc, polling, old_pos,
           new_pos, outMsg, last_game_msg, los_enabled, distance_enabled,
           game_terminated, inflight, hbResult, tcpWriteShut, queue, parked,
           parkedQ, chanOpen, ticksLeft, tcpOut, udpOut, pingsOut, lastYield,
           exitCause,
           rxVersion, ioFailed, nSubmitted, lastPacket, lastSendResult,
           config, extracted, airfields, mission_units >>

identityVars == << sguid, name, freq, m, unit >>
lockVars == << lock, tpc, tval, lastRead >>
clientVars == << identityVars, pos, lockVars >>
configVars == << recv_voice >>
missionVars == << config, extracted, airfields, mission_units >>
chanVars == << queue, parked, parkedQ, chanOpen >>
sinkVars == << packet_id, nSubmitted, lastPacket, lastSendResult >>
settingsVars == << los_enabled, distance_enabled >>
posArmVars == << old_pos, new_pos >>
outVars == << tcpOut, udpOut, pingsOut >>
exitVars == << hbResult, exitCause, ioFailed, lastYield >>

\* ---------------------------------------------------------------- helpers
Range(s) == { s[i] : i \in 1..Len(s) }

\* variant: the counter saturates at its maximum instead of wrapping
saturating_add_1(x) == IF x + 1 >= IdMod THEN x ELSE x + 1

\* u64::wrapping_add(1) at the model's width
wrapping_add_1(x) == (x + 1) % IdMod

\* ------------------------------------------------------- control messages
\* An Option is a sequence of length 0 (None) or 1 (Some).
\* line 292: the value Radio::default() returns, and the number of slots
Radio_default == "Radio::default()"
RadioSlots == 10

\* variant: the unit field is the unit's name even when no unit is bound
radio_info_unit_no_fallback(u) == u.name

\* lines 295-298: the bound unit's name, or the client's name without a unit
radio_info_unit(u) == IF u = NoUnit THEN name ELSE u.name

\* line 299: the bound unit's id, or 0 without a unit
radio_info_unit_id(u) == IF u = NoUnit THEN 0 ELSE u.id

\* lines 288-301: the RadioInfo block of the client
RadioInfo ==
    [name |-> "DATIS Radios",
     ptt |-> FALSE,
     radios |-> [i \in 1..RadioSlots |-> Radio_default],
     control |-> "Hotas",
     selected |-> 0,
     unit |-> radio_info_unit(unit),
     unit_id |-> radio_info_unit_id(unit),
     simultaneous_transmission |-> TRUE]

\* lines 350-359: the RadioInfo block made of a GameMessage.  A GameMessage is
\* opaque: each field taken from it is the message itself.
RadioInfoFromGame(g) ==
    [name |-> g,
     ptt |-> g,
     radios |-> g,
     control |-> "Hotas",
     selected |-> g,
     unit |-> g,
     unit_id |-> g,
     simultaneous_transmission |-> TRUE]

create_sync_message(p) ==
    [msg_type |-> "Sync", client_guid |-> sguid, name |-> name,
     coalition |-> "Blue", radio_info |-> << >>, lat_lng_position |-> p]

\* variant: the initial message is a plain Update without the radio block
create_initial_update_message(p) ==
    [msg_type |-> "Update", client_guid |-> sguid, name |-> name,
     coalition |-> "Blue", radio_info |-> << >>, lat_lng_position |-> p]

create_radio_update_message(p) ==
    [msg_type |-> "RadioUpdate", client_guid |-> sguid, name |-> name,
     coalition |-> "Blue", radio_info |-> << RadioInfo >>, lat_lng_position |-> p]

create_update_message(p) ==
    [msg_type |-> "Update", client_guid |-> sguid, name |-> name,
     coalition |-> "Blue", radio_info |-> << >>, lat_lng_position |-> p]

radio_message_from_game(g) ==
    [msg_type |-> "RadioUpdate", client_guid |-> sguid, name |-> g,
     coalition |-> "Blue", radio_info |-> << RadioInfoFromGame(g) >>,
     lat_lng_position |-> g]

\* What the log keeps of a written control message: its type, its client_guid
\* and whether its radio_info is absent, the client's block or taken from the
\* game
Wire(msg) ==
    [msg_type |-> msg.msg_type,
     client_guid |-> msg.client_guid,
     radio_info |-> IF msg.radio_info = << >> THEN "none"
                    ELSE IF msg.radio_info[1].name \in GameMessages THEN "game"
                    ELSE "client"]

\* Inbound control messages: type, optional server_settings map, version.
\* The driver reads the version of a VersionMismatch message only, and the
\* flags it stores from the map of such a message are dropped with the driver
\* in the same step: the other messages come with one version, the
\* VersionMismatch messages without a map or with one map.
SettingValues == {"True", "true", "absent"}
InboundMessages ==
    { msg \in [msg_type : {"VersionMismatch", "ServerSettings"},
               has_settings : BOOLEAN,
               LOS_ENABLED : SettingValues,
               DISTANCE_ENABLED : SettingValues,
               version : PeerVersions] :
        /\ ~msg.has_settings => (msg.LOS_ENABLED = "absent" /\ msg.DISTANCE_ENABLED = "absent")
        /\ msg.msg_type # "VersionMismatch" => msg.version = SRS_VERSION
        /\ (msg.msg_type = "VersionMismatch" /\ msg.has_settings) =>
              (msg.LOS_ENABLED = "True" /\ msg.DISTANCE_ENABLED = "true") }

\* variant: the error names the client's version only
version_mismatch_error_own_version(v) ==
    << "Version mismatch between DATIS (", SRS_VERSION, ") and the SRS server" >>

\* anyhow!("Version mismatch between DATIS ({}) and the SRS server ({})", ..)
version_mismatch_error(v) ==
    << "Version mismatch between DATIS (", SRS_VERSION,
       ") and the SRS server (", v, ")" >>

io_error(op) == << "io error", op >>

\* ------------------------------------------------- futures mpsc (bounded)
\* BoundedSenderInner::poll_unparked
poll_unparked(s) == ~parked[s]

\* Sender::poll_ready: "disconnected", "ready" or "pending"
chan_poll_ready(s) ==
    IF ~chanOpen THEN "disconnected"
    ELSE IF poll_unparked(s) THEN "ready" ELSE "pending"

\* Sender::start_send = try_send: "full", "disconnected" or "ok"
chan_try_send(s) ==
    IF ~poll_unparked(s) THEN "full"
    ELSE IF ~chanOpen THEN "disconnected" ELSE "ok"

\* variant: a sender is never parked, the channel is unbounded
park_self_never(n) == FALSE

\* do_send_b: park_self = num_messages > buffer, counted after the increment
park_self(n) == n > ChanBuffer

\* variant: the message goes to the head of the queue
queue_push_front(q, p) == << p >> \o q

\* queue_push_and_signal: the message goes to the tail of the queue
queue_push(q, p) == Append(q, p)

\* do_send_b, on the "ok" path of try_send
ChanSend(s, p) ==
    /\ queue' = queue_push(queue, p)
    /\ IF park_self(Len(queue) + 1)
       THEN /\ parked' = [parked EXCEPT ![s] = TRUE]
            /\ parkedQ' = Append(parkedQ, s)
       ELSE UNCHANGED << parked, parkedQ >>
    /\ UNCHANGED chanOpen

\* Receiver::next_message with a message present: pop it and unpark_one
ChanRecv ==
    /\ queue' = Tail(queue)
    /\ IF parkedQ # << >>
       THEN /\ parked' = [parked EXCEPT ![Head(parkedQ)] = FALSE]
            /\ parkedQ' = Tail(parkedQ)
       ELSE UNCHANGED << parked, parkedQ >>
    /\ UNCHANGED chanOpen

\* variant: the receiver outlives the driver and the channel stays open
ChanKeepReceiver == UNCHANGED << queue, parked, parkedQ, chanOpen >>

\* Receiver::drop: close, wake every parked sender, drain the messages
ChanDropReceiver ==
    /\ chanOpen' = FALSE
    /\ queue' = << >>
    /\ parked' = [s \in Senders |-> FALSE]
    /\ parkedQ' = << >>

\* ------------------------------------------------------------------- Init
Running == [done |-> FALSE, ok |-> FALSE, err |-> << >>]
Ok == [done |-> TRUE, ok |-> TRUE, err |-> << >>]
Err(e) == [done |-> TRUE, ok |-> FALSE, err |-> e]

\* The session as VoiceStream::new leaves it, whatever the Client is
SessionInit ==
    /\ pos \in {[c \in Cells |-> IF c = Arc_new THEN p ELSE NoPos] : p \in Positions}
    /\ lock = [writer |-> NoThread, readers |-> {}]
    /\ tpc = [t \in Threads |-> "idle"]
    /\ tval = [t \in Threads |-> NoPos]
    /\ lastRead = [t \in Readers |-> NoPos]
    /\ recv_voice \in BOOLEAN
    /\ shutdown_signal = "armed"
    /\ packet_id = 1
    /\ pc = "start"
    /\ polling = FALSE
    /\ old_pos = NoPos
    /\ new_pos = NoPos
    /\ outMsg = NoMessage
    /\ last_game_msg = NoGameMsg
    /\ los_enabled = FALSE
    /\ distance_enabled = FALSE
    /\ game_terminated = FALSE
    /\ inflight = NoPacket
    /\ hbResult = Running
    /\ tcpWriteShut = FALSE
    /\ queue = << >>
    /\ parked = [s \in Senders |-> FALSE]
    /\ parkedQ = << >>
    /\ chanOpen = TRUE
    /\ ticksLeft = MaxTicks
    /\ tcpOut = << >>
    /\ udpOut = << >>
    /\ pingsOut = 0
    /\ lastYield = [kind |-> "none", err |-> << >>]
    /\ exitCause = "none"
    /\ rxVersion = "none"
    /\ ioFailed = "none"
    /\ nSubmitted = 0
    /\ lastPacket = NoPacket
    /\ lastSendResult = "none"

\* No extractor of mission.rs has been given a text
NotExtracted == [by |-> "none"]
MissionIdle ==
    /\ config = "" /\ extracted = NotExtracted
    /\ airfields = {} /\ mission_units = << >>

\* A session of the client the radio station builds from its default
\* arguments (name, frequency and modulation; no unit bound).  The identity
\* is opaque to the driver, which only copies it: one sguid stands for all.
Init ==
    /\ sguid = "Ab3dE6gH9jKlMn0pQrStUv"
    /\ name \in Names
    /\ freq = DefaultFreq
    /\ m = "AM"
    /\ unit = NoUnit
    /\ SessionInit
    /\ MissionIdle

\* Client::position through the handle a (the lock is taken apart in LockSpec)
position(a) == pos[a]

\* ----------------------------------------------------------- environment
\* Client::set_position, or a write through position_handle(), as one step
\* (LockSpec below takes the call apart)
SetPosition(p) ==
    /\ \E h \in HostHandles :
          /\ p # pos[h]
          /\ pos' = [pos EXCEPT ![h] = p]
    /\ UNCHANGED << identityVars, lockVars, configVars, missionVars, shutdown_signal, sinkVars, pc, polling, posArmVars,
                    outMsg, last_game_msg, settingsVars, game_terminated, inflight,
                    tcpWriteShut, chanVars, ticksLeft, outVars, exitVars, rxVersion >>

\* the owner of the oneshot sender sends () ...
FireShutdown ==
    /\ shutdown_signal = "armed" /\ ~hbResult.done
    /\ shutdown_signal' = "fired"
    /\ UNCHANGED << clientVars, configVars, missionVars, sinkVars, pc, polling, posArmVars,
                    outMsg, last_game_msg, settingsVars, game_terminated, inflight,
                    tcpWriteShut, chanVars, ticksLeft, outVars, exitVars, rxVersion >>

\* ... or drops it without sending
DropShutdown ==
    /\ shutdown_signal = "armed" /\ ~hbResult.done
    /\ shutdown_signal' = "dropped"
    /\ UNCHANGED << clientVars, configVars, missionVars, sinkVars, pc, polling, posArmVars,
                    outMsg, last_game_msg, settingsVars, game_terminated, inflight,
                    tcpWriteShut, chanVars, ticksLeft, outVars, exitVars, rxVersion >>

\* ------------------------------------------------------- Sink<Vec<u8>>
\* variant: the modulation string is compared without regard to case
modulation_any_case(s) == IF s \in {"FM", "fm"} THEN "FM" ELSE "AM"

\* lines 245-249: Modulation::FM for the string "FM", Modulation::AM otherwise
modulation(s) == IF s = "FM" THEN "FM" ELSE "AM"

\* line 257: self.client.unit().map(|u| u.id).unwrap_or(0)
unit_id(u) == IF u = NoUnit THEN 0 ELSE u.id

\* variant: transmission_sguid is left as the zeroed array it starts as
VoicePacketZeroTransmission(n, id) ==
    [kind |-> "voice",
     audio_part |-> n,
     frequencies |-> << [freq |-> freq, modulation |-> modulation(m),
                         encryption |-> "None"] >>,
     unit_id |-> unit_id(unit),
     packet_id |-> id,
     hop_count |-> 0,
     transmission_sguid |-> "0000000000000000000000",
     client_sguid |-> sguid]

\* lines 250-262.  The chunk is identified by its submission number n.
VoicePacket(n, id) ==
    [kind |-> "voice",
     audio_part |-> n,
     frequencies |-> << [freq |-> freq, modulation |-> modulation(m),
                         encryption |-> "None"] >>,
     unit_id |-> unit_id(unit),
     packet_id |-> id,
     hop_count |-> 0,
     transmission_sguid |-> sguid,
     client_sguid |-> sguid]

\* lines 95-96 and 172: Packet::Ping with the bytes of client.sguid()
Ping == [kind |-> "ping", sguid |-> sguid]

\* variant: the counter advances only when the channel took the packet
SinkStartSendIdOnSuccess ==
    /\ ~polling
    /\ nSubmitted < MaxChunks
    /\ LET packet == VoicePacket(nSubmitted + 1, packet_id)
           r == chan_try_send("tx2")
       IN /\ nSubmitted' = nSubmitted + 1
          /\ lastPacket' = packet
          /\ lastSendResult' = r
          /\ IF r = "ok"
             THEN packet_id' = wrapping_add_1(packet_id) /\ ChanSend("tx2", packet)
             ELSE UNCHANGED << packet_id, chanVars >>
    /\ UNCHANGED << clientVars, configVars, missionVars, shutdown_signal, pc, polling, posArmVars,
                    outMsg, last_game_msg, settingsVars, game_terminated, inflight,
                    tcpWriteShut, ticksLeft, outVars, exitVars, rxVersion >>

\* Sink::start_send.  It takes &mut VoiceStream, so it never overlaps a
\* poll_next call.  It does not call poll_ready itself.
SinkStartSend ==
    /\ ~polling
    /\ nSubmitted < MaxChunks
    /\ LET packet == VoicePacket(nSubmitted + 1, packet_id)
           r == chan_try_send("tx2")
       IN /\ nSubmitted' = nSubmitted + 1
          /\ lastPacket' = packet
          /\ lastSendResult' = r
          /\ packet_id' = wrapping_add_1(packet_id)
          /\ IF r = "ok" THEN ChanSend("tx2", packet) ELSE UNCHANGED chanVars
    /\ UNCHANGED << clientVars, configVars, missionVars, shutdown_signal, pc, polling, posArmVars,
                    outMsg, last_game_msg, settingsVars, game_terminated, inflight,
                    tcpWriteShut, ticksLeft, outVars, exitVars, rxVersion >>

\* ------------------------------------------------------ Stream::poll_next
Yield(k, e) == [kind |-> k, err |-> e]

\* lines 222-228: how poll_next reports the completed heartbeat
poll_next_heartbeat(res) ==
    IF res.ok
    THEN Yield("err", << "TCP connection was closed unexpectedly" >>)
    ELSE Yield("err", res.err)

\* lines 216-219: the inbound UDP stream yielded a decoded packet or an error;
\* poll_next returns it at once and the heartbeat is not polled.  (UdpFramed
\* never ends, so line 210 is not reached.)
InboundItems == {"packet", "udp_error"}

\* variant: the heartbeat is polled in every poll_next call, also in one that
\* returns an inbound item
PollInboundThenHeartbeat(o) ==
    /\ ~polling
    /\ lastYield' = IF o = "packet" THEN Yield("packet", << >>)
                    ELSE Yield("err", io_error("voice_stream.poll_next"))
    /\ polling' = ~hbResult.done
    /\ UNCHANGED << clientVars, configVars, missionVars, shutdown_signal, sinkVars, pc,
                    posArmVars, outMsg, last_game_msg, settingsVars, game_terminated,
                    inflight, tcpWriteShut, chanVars, ticksLeft, outVars, hbResult,
                    exitCause, ioFailed, rxVersion >>

PollInbound(o) ==
    /\ ~polling
    /\ lastYield' = IF o = "packet" THEN Yield("packet", << >>)
                    ELSE Yield("err", io_error("voice_stream.poll_next"))
    /\ UNCHANGED << clientVars, configVars, missionVars, shutdown_signal, sinkVars, pc, polling,
                    posArmVars, outMsg, last_game_msg, settingsVars, game_terminated,
                    inflight, tcpWriteShut, chanVars, ticksLeft, outVars, hbResult,
                    exitCause, ioFailed, rxVersion >>

\* lines 209/213 then 222: the inbound stream is pending (or the codec made no
\* packet) and the heartbeat is polled.  Polling a completed async block panics.
PollHeartbeat ==
    /\ ~polling
    /\ IF hbResult.done
       THEN /\ lastYield' = Yield("panic", << >>)
            /\ UNCHANGED polling
       ELSE /\ polling' = TRUE
            /\ lastYield' = Yield("none", << >>)
    /\ UNCHANGED << clientVars, configVars, missionVars, shutdown_signal, sinkVars, pc,
                    posArmVars, outMsg, last_game_msg, settingsVars, game_terminated,
                    inflight, tcpWriteShut, chanVars, ticksLeft, outVars, hbResult,
                    exitCause, ioFailed, rxVersion >>

\* The heartbeat future completes with res: its locals (rx, tx, the sockets,
\* the timers, the server settings, old_pos, last_game_msg) are dropped and
\* poll_next returns what lines 222-228 make of res.
Finish(res, cause) ==
    /\ pc' = "done"
    /\ hbResult' = res
    /\ exitCause' = cause
    /\ lastYield' = poll_next_heartbeat(res)
    /\ polling' = FALSE
    /\ inflight' = NoPacket
    /\ outMsg' = NoMessage
    /\ old_pos' = NoPos
    /\ new_pos' = NoPos
    /\ last_game_msg' = NoGameMsg
    /\ game_terminated' = FALSE
    /\ los_enabled' = FALSE
    /\ distance_enabled' = FALSE
    /\ ticksLeft' = 0
    /\ ChanDropReceiver

\* variant: the error of an awaited operation is discarded and the loop goes on
PropagateDiscarded(e, cause) ==
    /\ pc' = "select"
    /\ inflight' = NoPacket
    /\ outMsg' = NoMessage
    /\ UNCHANGED << hbResult, exitCause, lastYield, polling, posArmVars, last_game_msg,
                    game_terminated, settingsVars, ticksLeft, chanVars >>

\* the `?` after an await (lines 78, 83, 103, 153, 166, 172, 178): the error
\* is returned from the async block
Propagate(e, cause) == Finish(Err(e), cause)

\* The heartbeat returns Poll::Pending: nothing it waits for is ready.
Blocked ==
    \/ pc \in {"send_sync", "send_radio", "pos_send", "game_send", "udp_send"}
    \/ pc = "select" /\ queue = << >> /\ shutdown_signal = "armed"
    \/ pc = "ping_feed" /\ chan_poll_ready("tx") = "pending"
    \/ pc = "ping_flush" /\ chan_poll_ready("tx") = "pending"

DriverPending ==
    /\ polling
    /\ Blocked
    /\ polling' = FALSE
    /\ lastYield' = Yield("pending", << >>)
    /\ UNCHANGED << clientVars, configVars, missionVars, shutdown_signal, sinkVars, pc,
                    posArmVars, outMsg, last_game_msg, settingsVars, game_terminated,
                    inflight, tcpWriteShut, chanVars, ticksLeft, outVars, hbResult,
                    exitCause, ioFailed, rxVersion >>

\* ------------------------------------------------- the heartbeat future
\* What no step of the driver changes
DriverFrame == UNCHANGED << clientVars, configVars, missionVars, shutdown_signal, sinkVars >>

\* What a step that neither completes nor suspends the driver leaves alone
Continue == UNCHANGED << polling, exitVars >>

\* line 78: the first poll builds the Sync message and starts writing it
Start ==
    /\ polling /\ pc = "start"
    /\ outMsg' = create_sync_message(position(client_pos))
    /\ pc' = "send_sync"
    /\ Continue /\ DriverFrame
    /\ UNCHANGED << posArmVars, last_game_msg, settingsVars, game_terminated,
                    inflight, tcpWriteShut, chanVars, ticksLeft, outVars, rxVersion >>

TcpSending == {"send_sync", "send_radio", "pos_send", "game_send"}

\* messages_sink.send(..).await completes: the message is on the wire.
\*   line 78  -> lines 81-83 (the RadioUpdate is built and its write started)
\*   line 83  -> line 85 (old_pos) and on into the loop
\*   line 153 -> line 154 (old_pos = new_pos)
\*   line 166 -> next iteration
TcpSendOk ==
    /\ polling /\ pc \in TcpSending
    /\ tcpOut' = Append(tcpOut, Wire(outMsg))
    /\ CASE pc = "send_sync" ->
              /\ outMsg' = create_radio_update_message(position(client_pos))
              /\ pc' = "send_radio"
              /\ UNCHANGED posArmVars
         [] pc = "send_radio" ->
              /\ outMsg' = NoMessage
              /\ pc' = "select"
              /\ old_pos' = position(client_pos)
              /\ UNCHANGED new_pos
         [] pc = "pos_send" ->
              /\ outMsg' = NoMessage
              /\ pc' = "select"
              /\ old_pos' = new_pos
              /\ new_pos' = NoPos
         [] pc = "game_send" ->
              /\ outMsg' = NoMessage
              /\ pc' = "select"
              /\ UNCHANGED posArmVars
    /\ Continue /\ DriverFrame
    /\ UNCHANGED << last_game_msg, settingsVars, game_terminated, inflight,
                    tcpWriteShut, chanVars, ticksLeft, udpOut, pingsOut, rxVersion >>

\* messages_sink.send(..).await? fails: the ? returns the error
TcpSendFail ==
    /\ polling /\ pc \in TcpSending
    /\ ioFailed' = "messages_sink.send"
    /\ Propagate(io_error("messages_sink.send"), "io_error")
    /\ DriverFrame
    /\ UNCHANGED << tcpWriteShut, outVars, rxVersion >>

\* variant: LOS_ENABLED is compared without regard to case
settings_los_any_case(msg) ==
    IF msg.has_settings THEN msg.LOS_ENABLED \in {"True", "true"} ELSE los_enabled

\* variant: a key missing from the map leaves its flag as it was
settings_distance_keep_missing(msg) ==
    IF msg.has_settings /\ msg.DISTANCE_ENABLED # "absent"
    THEN msg.DISTANCE_ENABLED = "true" ELSE distance_enabled

\* lines 105-115: the flags are stored only when the message carries a map
settings_los(msg) == IF msg.has_settings THEN msg.LOS_ENABLED = "True" ELSE los_enabled
settings_distance(msg) ==
    IF msg.has_settings THEN msg.DISTANCE_ENABLED = "true" ELSE distance_enabled

\* lines 101-129: a control message was decoded
ControlMessage(msg) ==
    /\ polling /\ pc = "select"
    /\ IF msg.msg_type = "VersionMismatch"
       THEN /\ rxVersion' = msg.version
            /\ Finish(Err(version_mismatch_error(msg.version)), "version_mismatch")
            /\ UNCHANGED ioFailed
       ELSE /\ los_enabled' = settings_los(msg)
            /\ distance_enabled' = settings_distance(msg)
            /\ Continue
            /\ UNCHANGED << pc, outMsg, inflight, chanVars, posArmVars, last_game_msg,
                            game_terminated, ticksLeft, rxVersion >>
    /\ DriverFrame
    /\ UNCHANGED << tcpWriteShut, outVars >>

\* line 103: the stream yielded Some(Err(_)) (a read or a decode error)
ControlError ==
    /\ polling /\ pc = "select"
    /\ ioFailed' = "messages_stream.next"
    /\ Propagate(io_error("messages_stream.next"), "decode_error")
    /\ DriverFrame
    /\ UNCHANGED << tcpWriteShut, outVars, rxVersion >>

\* lines 130-133: the stream yielded None, the loop breaks, line 189 Ok(())
ControlClosed ==
    /\ polling /\ pc = "select"
    /\ Finish(Ok, "tcp_closed")
    /\ UNCHANGED ioFailed
    /\ DriverFrame
    /\ UNCHANGED << tcpWriteShut, outVars, rxVersion >>

\* line 92
send_client_position_updates == ~recv_voice

\* variant: the server's flags are not consulted
position_changed_ignoring_flags(np) ==
    send_client_position_updates /\ np # old_pos

\* line 148, with line 140
position_changed(np) ==
    send_client_position_updates /\ (los_enabled \/ distance_enabled) /\ np # old_pos

\* variant: the baseline follows the position at every tick, sent or not
PositionTickMovesBaseline ==
    /\ polling /\ pc = "select"
    /\ ticksLeft > 0
    /\ ticksLeft' = ticksLeft - 1
    /\ IF position_changed(position(client_pos))
       THEN /\ new_pos' = position(client_pos)
            /\ pc' = "pos_create"
            /\ UNCHANGED old_pos
       ELSE /\ old_pos' = IF send_client_position_updates
                          THEN position(client_pos) ELSE old_pos
            /\ UNCHANGED << new_pos, pc >>
    /\ Continue /\ DriverFrame
    /\ UNCHANGED << outMsg, last_game_msg, settingsVars, game_terminated,
                    inflight, tcpWriteShut, chanVars, outVars, rxVersion >>

\* lines 139-148: a tick of position_update_interval
PositionTick ==
    /\ polling /\ pc = "select"
    /\ ticksLeft > 0
    /\ ticksLeft' = ticksLeft - 1
    /\ IF position_changed(position(client_pos))
       THEN /\ new_pos' = position(client_pos)
            /\ pc' = "pos_create"
       ELSE UNCHANGED << new_pos, pc >>
    /\ Continue /\ DriverFrame
    /\ UNCHANGED << old_pos, outMsg, last_game_msg, settingsVars, game_terminated,
                    inflight, tcpWriteShut, chanVars, outVars, rxVersion >>

\* line 153: create_update_message(&client) reads the position again
CreateUpdate ==
    /\ polling /\ pc = "pos_create"
    /\ outMsg' = create_update_message(position(client_pos))
    /\ pc' = "pos_send"
    /\ Continue /\ DriverFrame
    /\ UNCHANGED << posArmVars, last_game_msg, settingsVars, game_terminated,
                    inflight, tcpWriteShut, chanVars, ticksLeft, outVars, rxVersion >>

\* lines 158-162: a GameMessage arrived on game_source
GameMessage(g) ==
    /\ polling /\ pc = "select"
    /\ recv_voice /\ ~game_terminated
    /\ last_game_msg' = g
    /\ Continue /\ DriverFrame
    /\ UNCHANGED << pc, posArmVars, outMsg, settingsVars, game_terminated, inflight,
                    tcpWriteShut, chanVars, ticksLeft, outVars, rxVersion >>

\* variant: the end of game_source breaks the loop, as the end of the control
\* stream does
GameClosedBreaks ==
    /\ polling /\ pc = "select"
    /\ recv_voice /\ ~game_terminated
    /\ Finish(Ok, "game_closed")
    /\ DriverFrame
    /\ UNCHANGED << tcpWriteShut, ioFailed, outVars, rxVersion >>

\* lines 158-162: game_source yielded None (every sender was dropped).  The
\* arm does nothing; the fused stream is terminated and is not polled again.
GameClosed ==
    /\ polling /\ pc = "select"
    /\ recv_voice /\ ~game_terminated
    /\ game_terminated' = TRUE
    /\ Continue /\ DriverFrame
    /\ UNCHANGED << pc, posArmVars, outMsg, last_game_msg, settingsVars, inflight,
                    tcpWriteShut, chanVars, ticksLeft, outVars, rxVersion >>

\* variant: the tick takes the buffered message, so that it is relayed once
GameTickTakes ==
    /\ polling /\ pc = "select"
    /\ ticksLeft > 0
    /\ ticksLeft' = ticksLeft - 1
    /\ IF last_game_msg # NoGameMsg
       THEN /\ outMsg' = radio_message_from_game(last_game_msg)
            /\ pc' = "game_send"
       ELSE UNCHANGED << outMsg, pc >>
    /\ last_game_msg' = NoGameMsg
    /\ Continue /\ DriverFrame
    /\ UNCHANGED << posArmVars, settingsVars, game_terminated,
                    inflight, tcpWriteShut, chanVars, outVars, rxVersion >>

\* lines 164-168: a tick of game_source_interval
GameTick ==
    /\ polling /\ pc = "select"
    /\ ticksLeft > 0
    /\ ticksLeft' = ticksLeft - 1
    /\ IF last_game_msg # NoGameMsg
       THEN /\ outMsg' = radio_message_from_game(last_game_msg)
            /\ pc' = "game_send"
       ELSE UNCHANGED << outMsg, pc >>
    /\ Continue /\ DriverFrame
    /\ UNCHANGED << posArmVars, last_game_msg, settingsVars, game_terminated,
                    inflight, tcpWriteShut, chanVars, outVars, rxVersion >>

\* variant: the ping is sent whether or not voice is received
PingTickUnconditional ==
    /\ polling /\ pc = "select"
    /\ ticksLeft > 0
    /\ ticksLeft' = ticksLeft - 1
    /\ pc' = "ping_feed"
    /\ Continue /\ DriverFrame
    /\ UNCHANGED << posArmVars, outMsg, last_game_msg, settingsVars, game_terminated,
                    inflight, tcpWriteShut, chanVars, outVars, rxVersion >>

\* lines 170-174: a tick of voice_ping_interval
PingTick ==
    /\ polling /\ pc = "select"
    /\ ticksLeft > 0
    /\ ticksLeft' = ticksLeft - 1
    /\ pc' = IF recv_voice THEN "ping_feed" ELSE "select"
    /\ Continue /\ DriverFrame
    /\ UNCHANGED << posArmVars, outMsg, last_game_msg, settingsVars, game_terminated,
                    inflight, tcpWriteShut, chanVars, outVars, rxVersion >>

\* line 172, tx.send(..): SinkExt::send first feeds the item (poll_ready, then
\* start_send) ...
PingFeed ==
    /\ polling /\ pc = "ping_feed"
    /\ chan_poll_ready("tx") # "pending"
    /\ IF chan_poll_ready("tx") = "ready" /\ chan_try_send("tx") = "ok"
       THEN /\ ChanSend("tx", Ping)
            /\ pc' = "ping_flush"
            /\ Continue
            /\ UNCHANGED << outMsg, inflight >>
            /\ UNCHANGED << posArmVars, last_game_msg, settingsVars, game_terminated,
                            ticksLeft >>
       ELSE /\ ioFailed' = "tx.send"
            /\ Propagate(io_error("tx.send"), "io_error")
    /\ DriverFrame
    /\ UNCHANGED << tcpWriteShut, outVars, rxVersion >>

\* ... and then flushes: Sender::poll_flush is poll_ready, so the send future
\* completes only once the sender is not parked (or the channel is closed)
PingFlush ==
    /\ polling /\ pc = "ping_flush"
    /\ chan_poll_ready("tx") # "pending"
    /\ pc' = "select"
    /\ Continue /\ DriverFrame
    /\ UNCHANGED << posArmVars, outMsg, last_game_msg, settingsVars, game_terminated,
                    inflight, tcpWriteShut, chanVars, ticksLeft, outVars, rxVersion >>

\* lines 176-178: rx.next() yielded a packet; its UDP send is started
VoiceRecv ==
    /\ polling /\ pc = "select"
    /\ queue # << >>
    /\ inflight' = Head(queue)
    /\ ChanRecv
    /\ pc' = "udp_send"
    /\ Continue /\ DriverFrame
    /\ UNCHANGED << posArmVars, outMsg, last_game_msg, settingsVars, game_terminated,
                    tcpWriteShut, ticksLeft, outVars, rxVersion >>

\* variant: the driver runs as a task of its own and the UDP send completes
\* whether or not the session stream is polled
UdpSendOkUnpolled ==
    /\ pc = "udp_send"
    /\ IF inflight.kind = "voice"
       THEN udpOut' = Append(udpOut, inflight) /\ UNCHANGED pingsOut
       ELSE pingsOut' = pingsOut + 1 /\ UNCHANGED udpOut
    /\ inflight' = NoPacket
    /\ pc' = "select"
    /\ Continue /\ DriverFrame
    /\ UNCHANGED << posArmVars, outMsg, last_game_msg, settingsVars, game_terminated,
                    tcpWriteShut, chanVars, ticksLeft, tcpOut, rxVersion >>

\* line 178: voice_sink.send((p, addr)).await completes
UdpSendOk ==
    /\ polling /\ pc = "udp_send"
    /\ IF inflight.kind = "voice"
       THEN udpOut' = Append(udpOut, inflight) /\ UNCHANGED pingsOut
       ELSE pingsOut' = pingsOut + 1 /\ UNCHANGED udpOut
    /\ inflight' = NoPacket
    /\ pc' = "select"
    /\ Continue /\ DriverFrame
    /\ UNCHANGED << posArmVars, outMsg, last_game_msg, settingsVars, game_terminated,
                    tcpWriteShut, chanVars, ticksLeft, tcpOut, rxVersion >>

\* line 178: voice_sink.send((p, addr)).await? fails
UdpSendFail ==
    /\ polling /\ pc = "udp_send"
    /\ ioFailed' = "voice_sink.send"
    /\ Propagate(io_error("voice_sink.send"), "io_error")
    /\ DriverFrame
    /\ UNCHANGED << tcpWriteShut, outVars, rxVersion >>

\* variant: the loop is left without shutting the write half down
ShutdownWithoutHalfClose ==
    /\ polling /\ pc = "select"
    /\ shutdown_signal \in {"fired", "dropped"}
    /\ Finish(Ok, "shutdown")
    /\ DriverFrame
    /\ UNCHANGED << tcpWriteShut, ioFailed, outVars, rxVersion >>

\* variant: the arm takes Ok(()) only, a dropped sender is not a shutdown
ShutdownOnFiredOnly ==
    /\ polling /\ pc = "select"
    /\ shutdown_signal = "fired"
    /\ tcpWriteShut' = TRUE
    /\ Finish(Ok, "shutdown")
    /\ UNCHANGED ioFailed
    /\ DriverFrame
    /\ UNCHANGED << outVars, rxVersion >>

\* lines 182-185: the fused oneshot receiver resolved, with Ok(()) or with
\* Err(Canceled); the pattern `_` takes both.  The future `shutdown()` returns
\* is not awaited; the OwnedWriteHalf `into_inner()` returned is dropped at the
\* end of the statement, which shuts the write direction down.
Shutdown ==
    /\ polling /\ pc = "select"
    /\ shutdown_signal \in {"fired", "dropped"}
    /\ tcpWriteShut' = TRUE
    /\ Finish(Ok, "shutdown")
    /\ UNCHANGED ioFailed
    /\ DriverFrame
    /\ UNCHANGED << outVars, rxVersion >>

\* ------------------------------------------------------------------- Next
Next ==
    \/ \E p \in Positions : SetPosition(p)
    \/ FireShutdown
    \/ DropShutdown
    \/ SinkStartSend
    \/ \E o \in InboundItems : PollInbound(o)
    \/ PollHeartbeat
    \/ DriverPending
    \/ Start
    \/ TcpSendOk
    \/ TcpSendFail
    \/ \E msg \in InboundMessages : ControlMessage(msg)
    \/ ControlError
    \/ ControlClosed
    \/ PositionTick
    \/ CreateUpdate
    \/ \E g \in GameMessages : GameMessage(g)
    \/ GameClosed
    \/ GameTick
    \/ PingTick
    \/ PingFeed
    \/ PingFlush
    \/ VoiceRecv
    \/ UdpSendOk
    \/ UdpSendFail
    \/ Shutdown

Spec == Init /\ [][Next]_vars

\* The session stream keeps being polled down to the heartbeat, a poll in
\* which the driver cannot go on returns, a socket send
\* the driver awaits completes, the driver runs on to its next await, and the
\* select!, which picks at random among the arms that are ready, does not pass
\* over a ready shutdown arm or a ready rx arm forever.
Fairness ==
    /\ WF_vars(PollHeartbeat)
    /\ WF_vars(DriverPending)
    /\ SF_vars(Start)
    /\ SF_vars(TcpSendOk)
    /\ SF_vars(UdpSendOk)
    /\ SF_vars(CreateUpdate)
    /\ SF_vars(PingFeed)
    /\ SF_vars(PingFlush)
    /\ SF_vars(Shutdown)
    /\ SF_vars(VoiceRecv)

FairSpec == Spec /\ Fairness

\* ------------------------------------------------- the sink of any Client
\* The session of a Client of any identity (sguid, frequency, modulation
\* string, unit bound or not), seen from the side of the caller that submits
\* chunks and moves the position while the stream is not polled.
ClientInit ==
    /\ sguid \in create_sguid
    /\ name \in Names
    /\ freq \in Freqs
    /\ m \in Modulations
    /\ unit \in Units
    /\ SessionInit
    /\ MissionIdle

ClientNext ==
    \/ \E p \in Positions : SetPosition(p)
    \/ SinkStartSend

ClientSpec == ClientInit /\ [][ClientNext]_vars

\* ------------------------------------------- the handshake of any Client
\* The session of a Client of any identity from start() to the select! loop:
\* the stream is polled, the two writes of the initial burst complete or fail,
\* and the host moves the position meanwhile.
HandshakeNext ==
    \/ \E p \in Positions : SetPosition(p)
    \/ PollHeartbeat
    \/ DriverPending
    \/ Start
    \/ TcpSendOk
    \/ TcpSendFail

HandshakeSpec == ClientInit /\ [][HandshakeNext]_vars

\* --------------------------------------- the RwLock around the position
\* Client::set_position and Client::position taken apart: the lock is taken,
\* the three fields are stored (or copied) one by one, the guard is dropped.
\* Writers are callers of set_position on any clone or holders of
\* position_handle(); readers are callers of position(), the driver among them.
LockPositions == Positions \cup {[lat |-> 2, lng |-> 2, alt |-> 2]}

sessionVars == << identityVars, configVars, shutdown_signal, sinkVars, pc, polling,
                  posArmVars, outMsg, last_game_msg, settingsVars, game_terminated,
                  inflight, tcpWriteShut, chanVars, ticksLeft, outVars, exitVars,
                  rxVersion >>

Fields == << "lat", "lng", "alt" >>
FieldAt(stage) == CASE stage = "lat" -> 1 [] stage = "lng" -> 2 [] stage = "alt" -> 3
AfterField(stage) == IF FieldAt(stage) < 3 THEN Fields[FieldAt(stage) + 1] ELSE "unlock"

\* client.rs line 65: self.pos.write() returns once no guard is held
SetPositionLock(t, p) ==
    /\ tpc[t] = "idle"
    /\ lock.writer = NoThread /\ lock.readers = {}
    /\ lock' = [lock EXCEPT !.writer = t]
    /\ tpc' = [tpc EXCEPT ![t] = "lat"]
    /\ tval' = [tval EXCEPT ![t] = p]
    /\ UNCHANGED << pos, lastRead, sessionVars, missionVars >>

\* client.rs line 66: *p = pos, a field at a time
SetPositionStore(t) ==
    /\ tpc[t] \in Range(Fields)
    /\ pos' = [pos EXCEPT ![position_handle(client_pos)][tpc[t]] = tval[t][tpc[t]]]
    /\ tpc' = [tpc EXCEPT ![t] = AfterField(tpc[t])]
    /\ UNCHANGED << lock, tval, lastRead, sessionVars, missionVars >>

\* client.rs line 67: the write guard is dropped
SetPositionUnlock(t) ==
    /\ tpc[t] = "unlock"
    /\ lock' = [lock EXCEPT !.writer = NoThread]
    /\ tpc' = [tpc EXCEPT ![t] = "idle"]
    /\ tval' = [tval EXCEPT ![t] = NoPos]
    /\ UNCHANGED << pos, lastRead, sessionVars, missionVars >>

\* variant: the reader does not wait for the writer
PositionLockNoWait(t) ==
    /\ tpc[t] = "idle"
    /\ lock' = [lock EXCEPT !.readers = @ \cup {t}]
    /\ tpc' = [tpc EXCEPT ![t] = "lat"]
    /\ UNCHANGED << pos, tval, lastRead, sessionVars, missionVars >>

\* client.rs line 52: self.pos.read() returns once no write guard is held
PositionLock(t) ==
    /\ tpc[t] = "idle"
    /\ lock.writer = NoThread
    /\ lock' = [lock EXCEPT !.readers = @ \cup {t}]
    /\ tpc' = [tpc EXCEPT ![t] = "lat"]
    /\ UNCHANGED << pos, tval, lastRead, sessionVars, missionVars >>

\* client.rs line 53: p.clone(), a field at a time
PositionClone(t) ==
    /\ tpc[t] \in Range(Fields)
    /\ tval' = [tval EXCEPT ![t][tpc[t]] = pos[client_pos][tpc[t]]]
    /\ tpc' = [tpc EXCEPT ![t] = AfterField(tpc[t])]
    /\ UNCHANGED << pos, lock, lastRead, sessionVars, missionVars >>

\* client.rs line 54: the read guard is dropped and the copy returned
PositionReturn(t) ==
    /\ tpc[t] = "unlock"
    /\ lock' = [lock EXCEPT !.readers = @ \ {t}]
    /\ lastRead' = [lastRead EXCEPT ![t] = tval[t]]
    /\ tpc' = [tpc EXCEPT ![t] = "idle"]
    /\ tval' = [tval EXCEPT ![t] = NoPos]
    /\ UNCHANGED << pos, sessionVars, missionVars >>

LockNext ==
    \/ \E t \in Writers, p \in LockPositions : SetPositionLock(t, p)
    \/ \E t \in Writers : SetPositionStore(t)
    \/ \E t \in Writers : SetPositionUnlock(t)
    \/ \E t \in Readers : PositionLock(t)
    \/ \E t \in Readers : PositionClone(t)
    \/ \E t \in Readers : PositionReturn(t)

LockSpec == Init /\ [][LockNext]_vars

\* ---------------------------------------- mission.rs: station directives
\* Texts are strings; Char(s, i) is the i-th character of s.
Char(s, i) == SubSeq(s, i, i)
Min(a, b) == IF a < b THEN a ELSE b

Digits == {"0", "1", "2", "3", "4", "5", "6", "7", "8", "9"}
Lowercase == "abcdefghijklmnopqrstuvwxyz"
Uppercase == "ABCDEFGHIJKLMNOPQRSTUVWXYZ"
Letters == { Char(Lowercase, i) : i \in 1..Len(Lowercase) }
               \cup { Char(Uppercase, i) : i \in 1..Len(Lowercase) }

\* the character classes of the regular expressions
NameClass == Letters \cup {"-", " "}          \* [a-zA-Z- ]
TrafficNameClass == Letters \cup {"-"}        \* [a-zA-Z-]
VoiceClass == Letters \cup {"-", ":"}         \* [a-zA-Z-:]

\* case folding of RegexBuilder::case_insensitive(true)
to_lowercase(c) ==
    IF \E i \in 1..Len(Lowercase) : Char(Uppercase, i) = c
    THEN Char(Lowercase, CHOOSE i \in 1..Len(Lowercase) : Char(Uppercase, i) = c)
    ELSE c

RECURSIVE lowercase(_)
lowercase(s) == IF s = "" THEN "" ELSE to_lowercase(Head(s)) \o lowercase(Tail(s))

\* the literal lit stands at position i of s (whatever the case, if ci)
LitAt(s, i, lit, ci) ==
    /\ i + Len(lit) - 1 <= Len(s)
    /\ IF ci THEN lowercase(SubSeq(s, i, i + Len(lit) - 1)) = lowercase(lit)
             ELSE SubSeq(s, i, i + Len(lit) - 1) = lit

\* a greedy class+ from position i: the first position that is not in cls
RECURSIVE RunEnd(_, _, _)
RunEnd(s, i, cls) ==
    IF i <= Len(s) /\ Char(s, i) \in cls THEN RunEnd(s, i + 1, cls) ELSE i

\* [1-3]\d{2}(\.\d{1,3})? at position i, greedy: the position after the match,
\* or 0 when there is none.  What follows the frequency in every expression
\* is no digit, so no shorter match is ever taken.
FreqEnd(s, i) ==
    IF /\ i + 2 <= Len(s)
       /\ Char(s, i) \in {"1", "2", "3"}
       /\ Char(s, i + 1) \in Digits
       /\ Char(s, i + 2) \in Digits
    THEN IF i + 4 <= Len(s) /\ Char(s, i + 3) = "." /\ Char(s, i + 4) \in Digits
         THEN Min(RunEnd(s, i + 4, Digits), i + 7)
         ELSE i + 3
    ELSE 0

\* ----------------------------------------------------- MHz text to Hz
\* The decimal value of a frequency text, in thousandths of a MHz
DigitValue(c) == CHOOSE d \in 0..9 : Char("0123456789", d + 1) = c
FracDigit(t, j) == IF 4 + j <= Len(t) THEN DigitValue(Char(t, 4 + j)) ELSE 0
Decimal(t) ==
    (100 * DigitValue(Char(t, 1)) + 10 * DigitValue(Char(t, 2)) + DigitValue(Char(t, 3))) * 1000
    + 100 * FracDigit(t, 1) + 10 * FracDigit(t, 2) + FracDigit(t, 3)

\* IEEE 754 binary exponents: 2^e <= k/1000 < 2^(e+1), for 100 <= k/1000 < 400,
\* and 2^e <= hz < 2^(e+1), for 10^8 <= hz < 4 * 10^8
Exponent(k) == IF k < 128000 THEN 6 ELSE IF k < 256000 THEN 7 ELSE 8
HzExponent(hz) == IF hz < 2^27 THEN 26 ELSE IF hz < 2^28 THEN 27 ELSE 28

\* f32::from_str: the f32 nearest to k/1000, as its 24-bit significand M (the
\* value is M * 2^(e-23)).  No k/1000 lies half way between two f32.
f32_from_str(k) ==
    LET sh == 2^(23 - Exponent(k))
    IN (k \div 1000) * sh + (2 * (k % 1000) * sh + 1000) \div 2000

\* M * 2^(e-23) * 1_000_000.0 in f32: the exact product M * 15625 / 2^(17-e),
\* rounded to the nearest multiple of the f32 spacing at the product (ties to
\* even).  The product is divided in two parts to stay within 32 bits.
f32_mul_1e6(M, e) ==
    LET d0 == 2^(17 - e)
        floor == (M \div d0) * 15625 + ((M % d0) * 15625) \div d0
        ulp == 2^(HzExponent(floor) - 23)
        d == d0 * ulp
        q == (M \div d) * 15625 + ((M % d) * 15625) \div d
        rem == ((M % d) * 15625) % d
        up == 2 * rem > d \/ (2 * rem = d /\ q % 2 = 1)
    IN (IF up THEN q + 1 ELSE q) * ulp

\* variant: the MHz text is converted exactly
mhz_to_hz_exact(t) == Decimal(t) * 1000

\* lines 478, 496, 571: (f32::from_str(freq).unwrap() * 1_000_000.0) as u64
mhz_to_hz_f32(t) == f32_mul_1e6(f32_from_str(Decimal(t)), Exponent(Decimal(t)))

\* lines 516, 519, 542, 601: (f64::from_str(freq).unwrap() * 1_000_000.0) as u64.
\* The f64 nearest to k/1000 is k/1000 + rho / (1000 * 2^(52-e)) with
\* rho = -(k * 2^(52-e) mod 1000), or that plus 1000 when it is below -500.
\* The product with 10^6 is k * 1000 + rho * 1000 / 2^(52-e); the f64 spacing
\* at the product is 2^(eP - 52), so the product rounds to k * 1000 - 1 spacing
\* when rho * 1000 / 2^(eP-e) < -1/2, and `as u64` then truncates to
\* k * 1000 - 1; it rounds to k * 1000 or above otherwise.
Pow2Mod1000(n) == IF n = 44 THEN 416 ELSE IF n = 45 THEN 832 ELSE 664
f64_from_str_rho(k) ==
    LET t == ((k % 1000) * Pow2Mod1000(52 - Exponent(k))) % 1000
    IN IF t <= 500 THEN 0 - t ELSE 1000 - t

mhz_to_hz_f64(t) ==
    LET k == Decimal(t)
        de == HzExponent(k * 1000) - Exponent(k)
    IN IF 2 * f64_from_str_rho(k) * 1000 < 0 - 2^de THEN k * 1000 - 1 ELSE k * 1000

\* --------------------------------------------------------- the extractors
\* An Option is a sequence of length 0 (None) or 1 (Some)
None == << >>
Some(v) == << v >>

\* datis_core::tts: the voices TextToSpeechProvider::from_str knows, with an
\* optional provider prefix GC: or AWS:; a bare voice name is a Google one
GcloudVoices == {"en-US-Standard-D", "en-US-Standard-E"}
AwsVoices == {"Brian"}

TextToSpeechProvider_from_str(v) ==
    LET after(n) == SubSeq(v, n + 1, Len(v))
    IN IF LitAt(v, 1, "AWS:", FALSE)
       THEN IF after(4) \in AwsVoices
            THEN Some([provider |-> "AmazonWebServices", voice |-> after(4)])
            ELSE None
       ELSE IF LitAt(v, 1, "GC:", FALSE)
       THEN IF after(3) \in GcloudVoices
            THEN Some([provider |-> "GoogleCloud", voice |-> after(3)])
            ELSE None
       ELSE IF v \in GcloudVoices
            THEN Some([provider |-> "GoogleCloud", voice |-> v])
            ELSE None

\* caps.get(n).and_then(|s| TextToSpeechProvider::from_str(s.as_str()).ok())
tts_of(voice) == IF voice = None THEN None ELSE TextToSpeechProvider_from_str(voice[1])

\* ,[ ]?KEYWORD followed by a space, at position i: the position after it, or 0
AfterKeyword(s, i, kw) ==
    IF i <= Len(s) /\ Char(s, i) = ","
    THEN IF LitAt(s, i + 1, " " \o kw \o " ", TRUE) THEN i + Len(kw) + 3
         ELSE IF LitAt(s, i + 1, kw \o " ", TRUE) THEN i + Len(kw) + 2
         ELSE 0
    ELSE 0

NoMatch == [matched |-> FALSE]

\* ^KEYWORD ([a-zA-Z- ]+) (freq)(,[ ]?TRAFFIC (freq))?(,[ ]?VOICE ([a-zA-Z-:]+))?$
\* without regard to case; the TRAFFIC group only when withTraffic.  The name
\* is the run of name characters less the space that ends it: no digit is a
\* name character, so no shorter name is followed by a frequency.
StationCaptures(s, kw, withTraffic) ==
    IF ~LitAt(s, 1, kw \o " ", TRUE) THEN NoMatch
    ELSE
    LET n0 == Len(kw) + 2
        e == RunEnd(s, n0, NameClass)
        fe == FreqEnd(s, e)
    IN  IF e < n0 + 2 \/ Char(s, e - 1) # " " \/ fe = 0 THEN NoMatch
        ELSE
        LET t0 == IF withTraffic THEN AfterKeyword(s, fe, "TRAFFIC") ELSE 0
            te == IF t0 = 0 THEN 0 ELSE FreqEnd(s, t0)
            hasTraffic == te # 0
            v == IF hasTraffic THEN te ELSE fe
            v0 == AfterKeyword(s, v, "VOICE")
            ve == IF v0 = 0 THEN 0 ELSE RunEnd(s, v0, VoiceClass)
            hasVoice == v0 # 0 /\ ve > v0
            end == IF hasVoice THEN ve ELSE v
        IN  IF end # Len(s) + 1 THEN NoMatch
            ELSE [matched |-> TRUE,
                  name |-> SubSeq(s, n0, e - 2),
                  freq |-> SubSeq(s, e, fe - 1),
                  traffic |-> IF hasTraffic THEN Some(SubSeq(s, t0, te - 1)) ELSE None,
                  voice |-> IF hasVoice THEN Some(SubSeq(s, v0, ve - 1)) ELSE None]

\* lines 463-468
StationConfig(n, a, t, v) == [name |-> n, atis |-> a, traffic |-> t, tts |-> v]

\* variant: the TRAFFIC part is not read
extract_atis_station_config_no_traffic(c) ==
    LET caps == StationCaptures(c, "ATIS", TRUE)
    IN IF ~caps.matched THEN None
       ELSE Some(StationConfig(caps.name, mhz_to_hz_f64(caps.freq), None, tts_of(caps.voice)))

\* lines 506-530
extract_atis_station_config(c) ==
    LET caps == StationCaptures(c, "ATIS", TRUE)
    IN IF ~caps.matched THEN None
       ELSE Some(StationConfig(caps.name,
                               mhz_to_hz_f64(caps.freq),
                               IF caps.traffic = None THEN None
                               ELSE Some(mhz_to_hz_f64(caps.traffic[1])),
                               tts_of(caps.voice)))

\* lines 532-553
extract_carrier_station_config(c) ==
    LET caps == StationCaptures(c, "CARRIER", FALSE)
    IN IF ~caps.matched THEN None
       ELSE Some(StationConfig(caps.name, mhz_to_hz_f64(caps.freq), None, tts_of(caps.voice)))

\* lines 591-611 (WetherStationConfig, lines 585-589)
extract_weather_station_config(c) ==
    LET caps == StationCaptures(c, "WEATHER", FALSE)
    IN IF ~caps.matched THEN None
       ELSE Some([name |-> caps.name, freq |-> mhz_to_hz_f64(caps.freq),
                  tts |-> tts_of(caps.voice)])

\* :[ ]*(.+)$ at position i (the colon): the message, or "" when no match.
\* The greedy [ ]* takes every space but leaves one when only spaces follow.
RECURSIVE HasNewline(_)
HasNewline(s) == s # "" /\ (Head(s) = "\n" \/ HasNewline(Tail(s)))

BroadcastMessage(s, i) ==
    IF i > Len(s) \/ Char(s, i) # ":" \/ i = Len(s) \/ HasNewline(SubSeq(s, i + 1, Len(s)))
    THEN ""
    ELSE SubSeq(s, Min(RunEnd(s, i + 1, {" "}), Len(s)), Len(s))

\* ^BROADCAST (freq)(,[ ]?VOICE ([a-zA-Z-:]+))?:[ ]*(.+)$ without regard to
\* case.  A colon is a voice character: the voice is the longest part of the
\* run of voice characters that a colon and a message follow.
BroadcastCaptures(s) ==
    IF ~LitAt(s, 1, "BROADCAST ", TRUE) THEN NoMatch
    ELSE
    LET fe == FreqEnd(s, 11)
        v0 == IF fe = 0 THEN 0 ELSE AfterKeyword(s, fe, "VOICE")
        ve == IF v0 = 0 THEN 0 ELSE RunEnd(s, v0, VoiceClass)
        colons == { j \in (v0 + 1)..(ve - 1) : Char(s, j) = ":" /\ BroadcastMessage(s, j) # "" }
    IN  IF fe = 0 THEN NoMatch
        ELSE IF v0 # 0 /\ colons # {}
        THEN LET j == CHOOSE c \in colons : \A d \in colons : d <= c
             IN [matched |-> TRUE, freq |-> SubSeq(s, 11, fe - 1),
                 voice |-> Some(SubSeq(s, v0, j - 1)), message |-> BroadcastMessage(s, j)]
        ELSE IF BroadcastMessage(s, fe) # ""
        THEN [matched |-> TRUE, freq |-> SubSeq(s, 11, fe - 1),
              voice |-> None, message |-> BroadcastMessage(s, fe)]
        ELSE NoMatch

\* lines 562-582 (BroadcastConfig, lines 556-560)
extract_custom_broadcast_config(c) ==
    LET caps == BroadcastCaptures(c)
    IN IF ~caps.matched THEN None
       ELSE Some([freq |-> mhz_to_hz_f32(caps.freq), message |-> caps.message,
                  tts |-> tts_of(caps.voice)])

\* KEYWORD (name class+) (freq) at position i of the briefing, as written
\* (the case matters): the captures and the position after the match.  The
\* ATIS name is the run less the space that ends it; the TRAFFIC name is the
\* whole run, and a space follows it.
BriefingAt(s, i, kw, cls) ==
    IF ~LitAt(s, i, kw \o " ", FALSE) THEN NoMatch
    ELSE
    LET n0 == i + Len(kw) + 1
        e == RunEnd(s, n0, cls)
        spaceInClass == " " \in cls
        nameEnd == IF spaceInClass THEN e - 2 ELSE e - 1
        f0 == IF spaceInClass THEN e ELSE e + 1
        sep == IF spaceInClass THEN (e > n0 /\ Char(s, e - 1) = " ")
               ELSE (e <= Len(s) /\ Char(s, e) = " ")
        fe == IF sep THEN FreqEnd(s, f0) ELSE 0
    IN  IF nameEnd < n0 \/ fe = 0 THEN NoMatch
        ELSE [matched |-> TRUE, name |-> SubSeq(s, n0, nameEnd),
              freq |-> SubSeq(s, f0, fe - 1), end |-> fe]

\* Regex::captures_iter: the matches from the left, none overlapping another
RECURSIVE captures_iter(_, _, _, _)
captures_iter(s, i, kw, cls) ==
    IF i > Len(s) THEN << >>
    ELSE LET caps == BriefingAt(s, i, kw, cls)
         IN IF caps.matched
            THEN << caps >> \o captures_iter(s, caps.end, kw, cls)
            ELSE captures_iter(s, i + 1, kw, cls)

\* lines 473-489: collect() into a HashMap, a later entry replacing an earlier
\* one of the same name
collect(caps) ==
    [n \in { caps[i].name : i \in 1..Len(caps) } |->
        LET last == CHOOSE i \in 1..Len(caps) :
                       /\ caps[i].name = n
                       /\ \A j \in 1..Len(caps) : caps[j].name = n => j <= i
        IN StationConfig(n, mhz_to_hz_f32(caps[last].freq), None, None)]

\* variant: a TRAFFIC capture of an unknown name makes an entry of its own
set_traffic_or_insert(stations, cap) ==
    [n \in DOMAIN stations \cup {cap.name} |->
        IF n = cap.name
        THEN StationConfig(n, IF n \in DOMAIN stations THEN stations[n].atis ELSE 0,
                           Some(mhz_to_hz_f32(cap.freq)), None)
        ELSE stations[n]]

\* lines 494-500: stations.get_mut(name) and, if there is one, its traffic
set_traffic(stations, cap) ==
    IF cap.name \in DOMAIN stations
    THEN [stations EXCEPT ![cap.name].traffic = Some(mhz_to_hz_f32(cap.freq))]
    ELSE stations

\* lines 493-501: the loop over the TRAFFIC captures
RECURSIVE traffic_loop(_, _)
traffic_loop(stations, caps) ==
    IF caps = << >> THEN stations
    ELSE traffic_loop(set_traffic(stations, Head(caps)), Tail(caps))

\* lines 470-504
extract_atis_station_frequencies(situation) ==
    traffic_loop(collect(captures_iter(situation, 1, "ATIS", NameClass)),
                 captures_iter(situation, 1, "TRAFFIC", TrafficNameClass))

\* ------------------------------------------------- the texts extracted
\* frequencies as a mission author writes them: whole MHz, one to three
\* decimals, the ends of the range [1-3]\d{2}, values near a power of two
FreqTexts ==
    {"251", "251.000", "131.5", "145", "255.00", "123.45", "131.400",
     "251.001", "100.000", "399.999", "128.003"}

\* unit names
DirectiveNames == {"Kutaisi", "Mineralnye Vody"}
TrafficParts == {"", ", TRAFFIC 123.45", ",TRAFFIC 255.00"}
VoiceParts ==
    {"", ", VOICE en-US-Standard-E", ", VOICE GC:en-US-Standard-D",
     ",VOICE AWS:Brian", ", VOICE Klingon"}
AtisConfigs ==
    { "ATIS " \o n \o " " \o f \o t \o v :
        n \in DirectiveNames, f \in FreqTexts, t \in TrafficParts, v \in VoiceParts }
CarrierConfigs ==
    { "CARRIER Mother " \o f \o v : f \in FreqTexts, v \in {"", ", VOICE AWS:Brian"} }
WeatherConfigs ==
    { "WEATHER Shooting Range " \o f \o v : f \in FreqTexts, v \in {"", ", VOICE AWS:Brian"} }
BroadcastConfigs ==
    { "BROADCAST " \o f \o v \o ": Bla bla" :
        f \in FreqTexts, v \in {"", ", VOICE AWS:Brian"} }
\* unit names that are no directive
OtherConfigs ==
    {"Kutaisi 251.000", "ATIS Kutaisi", "ATIS Kutaisi 451.000", "ATIS Kutaisi251.000",
     "ATIS Kutaisi 251.0001", "ATIS Kutaisi 251.000 TRAFFIC 123.45",
     "ATIS Kutaisi 251.000, VOICE en-US-Wavenet-4", "ATIS Kutaisi 251.000, TRAFFIC",
     "CARRIER Mother", "WEATHER 251.000", "BROADCAST 251.000", "Aerial-1-1"}

\* briefings: up to MaxLines lines
BriefingLines ==
    {"ATIS Batumi 131.5", "ATIS Batumi 251.000", "ATIS Mineralnye Vody 251.000",
     "ATIS Kutaisi 145", "TRAFFIC Batumi 255.00", "TRAFFIC Mineralnye Vody 255.00",
     "TRAFFIC Kutaisi 123.45"}

RECURSIVE Briefings(_)
Briefings(n) ==
    IF n = 1 THEN BriefingLines
    ELSE Briefings(n - 1)
           \cup { b \o "\n" \o l : b \in Briefings(n - 1), l \in BriefingLines }

Configs ==
    AtisConfigs \cup CarrierConfigs \cup WeatherConfigs \cup BroadcastConfigs
      \cup OtherConfigs \cup Briefings(MaxLines)

\* A text before any extractor has been given it.  No session exists yet.
MissionInit ==
    /\ config \in Configs
    /\ extracted = NotExtracted
    /\ airfields = {} /\ mission_units = << >>
    /\ sguid = "Ab3dE6gH9jKlMn0pQrStUv"
    /\ name \in Names
    /\ freq = DefaultFreq
    /\ m = "AM"
    /\ unit = NoUnit
    /\ SessionInit
    /\ recv_voice = FALSE
    /\ pos[Arc_new] = [lat |-> 0, lng |-> 0, alt |-> 0]

\* what an extractor leaves alone
MissionFrame == UNCHANGED << config, airfields, mission_units, pos, lockVars, sessionVars >>
Extracted(by, value) == [by |-> by, value |-> value]

ExtractAtisStationFrequencies ==
    /\ extracted = NotExtracted
    /\ extracted' = Extracted("extract_atis_station_frequencies",
                              extract_atis_station_frequencies(config))
    /\ MissionFrame

ExtractAtisStationConfig ==
    /\ extracted = NotExtracted
    /\ extracted' = Extracted("extract_atis_station_config",
                              extract_atis_station_config(config))
    /\ MissionFrame

ExtractCarrierStationConfig ==
    /\ extracted = NotExtracted
    /\ extracted' = Extracted("extract_carrier_station_config",
                              extract_carrier_station_config(config))
    /\ MissionFrame

ExtractCustomBroadcastConfig ==
    /\ extracted = NotExtracted
    /\ extracted' = Extracted("extract_custom_broadcast_config",
                              extract_custom_broadcast_config(config))
    /\ MissionFrame

ExtractWeatherStationConfig ==
    /\ extracted = NotExtracted
    /\ extracted' = Extracted("extract_weather_station_config",
                              extract_weather_station_config(config))
    /\ MissionFrame

MissionNext ==
    \/ ExtractAtisStationFrequencies
    \/ ExtractAtisStationConfig
    \/ ExtractCarrierStationConfig
    \/ ExtractCustomBroadcastConfig
    \/ ExtractWeatherStationConfig

MissionSpec == MissionInit /\ [][MissionNext]_vars

\* ------------------------------------------- extract: the station list
\* lines 289-295: the voice of the plugin options, parsed once
default_voice == [provider |-> "GoogleCloud", voice |-> "en-US-Standard-E"]

\* Option::unwrap_or_else
unwrap_or(o, d) == IF o = None THEN d ELSE o[1]

\* lines 134-143: the Airfield made of an airdrome of the terrain table, at
\* the airdrome's reference point
Airfield(n) ==
    [name |-> n, traffic_freq |-> None, position |-> [of |-> "airdrome", id |-> 0]]

\* lines 180-186 and 213: the i-th unit of the mission tables and its name
MissionUnit(i, n) == [id |-> i, name |-> n]

\* variant: the airfield stays in the map after a station was made of it
airfields_keep(fields, n) == fields

\* HashMap::remove at lines 302 and 316: the airfield is taken out of the map
airfields_remove(fields, n) == fields \ {n}

\* lines 299-310: the briefing's frequencies, visited in the order the HashMap
\* yields them, each combined with its airfield if the terrain has it; the
\* stations and the airfields left
RECURSIVE combine_frequencies(_, _, _)
combine_frequencies(frequencies, order, fields) ==
    IF order = << >> THEN [stations |-> << >>, airfields |-> fields]
    ELSE LET n == Head(order)
             found == n \in fields
             rest == combine_frequencies(frequencies, Tail(order),
                                         IF found THEN airfields_remove(fields, n) ELSE fields)
         IN [stations |->
                (IF found
                 THEN << [name |-> n, freq |-> frequencies[n].atis, tts |-> default_voice,
                          transmitter |-> [kind |-> "Airfield", airfield |-> Airfield(n)]] >>
                 ELSE << >>) \o rest.stations,
             airfields |-> rest.airfields]

\* lines 317-328: the station of unit u, whose name is the ATIS directive c;
\* the airfield takes the traffic frequency of the directive and the position
\* of the unit
unit_station(u, c) ==
    [name |-> c.name, freq |-> c.atis, tts |-> unwrap_or(c.tts, default_voice),
     transmitter |->
         [kind |-> "Airfield",
          airfield |-> [name |-> c.name, traffic_freq |-> c.traffic,
                        position |-> [of |-> "unit", id |-> u.id]]]]

\* lines 315-316: and_then(|config| airfields.remove(&config.name).map(..)) on
\* the Option c the extractor returned for unit u
and_then_remove(u, c, fields) ==
    IF c # None /\ c[1].name \in fields
    THEN [station |-> Some(unit_station(u, c[1])),
          airfields |-> airfields_remove(fields, c[1].name)]
    ELSE [station |-> None, airfields |-> fields]

\* lines 314-331: the units in order, each combined with its airfield if its
\* name is an ATIS directive and the map still has the airfield
RECURSIVE combine_units(_, _)
combine_units(units, fields) ==
    IF units = << >> THEN << >>
    ELSE LET taken == and_then_remove(Head(units),
                                      extract_atis_station_config(Head(units).name),
                                      fields)
         IN taken.station \o combine_units(Tail(units), taken.airfields)

\* Iterator::filter_map(..).collect(): the values of the Some, in order
RECURSIVE filter_map(_)
filter_map(options) ==
    IF options = << >> THEN << >> ELSE Head(options) \o filter_map(Tail(options))

\* lines 348-358, on the Option c the extractor returned for unit u
carrier_station(u, c) ==
    IF c = None THEN None
    ELSE Some([name |-> c[1].name, freq |-> c[1].atis,
               tts |-> unwrap_or(c[1].tts, default_voice),
               transmitter |-> [kind |-> "Carrier", name |-> c[1].name,
                                unit_id |-> u.id, unit_name |-> u.name]])

\* lines 345-360
carriers(units) ==
    filter_map([i \in 1..Len(units) |->
        carrier_station(units[i], extract_carrier_station_config(units[i].name))])

\* lines 377-387
broadcast_station(u, c) ==
    IF c = None THEN None
    ELSE Some([name |-> u.name, freq |-> c[1].freq,
               tts |-> unwrap_or(c[1].tts, default_voice),
               transmitter |-> [kind |-> "Custom", unit_id |-> u.id,
                                unit_name |-> u.name, message |-> c[1].message]])

\* lines 374-389
broadcasts(units) ==
    filter_map([i \in 1..Len(units) |->
        broadcast_station(units[i], extract_custom_broadcast_config(units[i].name))])

\* lines 406-417
weather_station(u, c) ==
    IF c = None THEN None
    ELSE Some([name |-> u.name, freq |-> c[1].freq,
               tts |-> unwrap_or(c[1].tts, default_voice),
               transmitter |-> [kind |-> "Weather", name |-> c[1].name,
                                unit_id |-> u.id, unit_name |-> u.name]])

\* lines 403-419
weather_stations(units) ==
    filter_map([i \in 1..Len(units) |->
        weather_station(units[i], extract_weather_station_config(units[i].name))])

\* lines 297-331 and 433-435: Info.stations
extract(situation, terrain, units, order) ==
    LET frequencies == extract_atis_station_frequencies(situation)
        fromBriefing == combine_frequencies(frequencies, order, terrain)
    IN fromBriefing.stations
         \o combine_units(units, fromBriefing.airfields)
         \o carriers(units) \o broadcasts(units) \o weather_stations(units)

\* HashMap::into_iter: the keys in any order
into_iter(keys) == { o \in [1..Cardinality(keys) -> keys] : Range(o) = keys }

\* the missions extracted: a briefing, a terrain and up to MaxUnits units
Situations ==
    {"ATIS Atlantis 131.5",
     "ATIS Batumi 131.5\nATIS Kutaisi 251.000\nTRAFFIC Kutaisi 123.45"}
Terrains == {{"Batumi", "Kutaisi", "Mineralnye Vody"}, {"Al Dhafra"}}
UnitNames ==
    {"ATIS Kutaisi 251.000, TRAFFIC 123.45", "ATIS Kutaisi 131.5, VOICE AWS:Brian",
     "ATIS Atlantis 145", "CARRIER Mother 251",
     "BROADCAST 251.000: Bla bla", "WEATHER Shooting Range 251", "Aerial-1-1"}
UnitLists ==
    UNION { { [i \in 1..n |-> MissionUnit(i, names[i])] : names \in [1..n -> UnitNames] } :
            n \in 0..MaxUnits }

\* A mission as DCS has loaded it, before extract is called.  No session
\* exists yet.
ExtractInit ==
    /\ config \in Situations
    /\ airfields \in Terrains
    /\ mission_units \in UnitLists
    /\ extracted = NotExtracted
    /\ sguid = "Ab3dE6gH9jKlMn0pQrStUv"
    /\ name \in Names
    /\ freq = DefaultFreq
    /\ m = "AM"
    /\ unit = NoUnit
    /\ SessionInit
    /\ recv_voice = FALSE
    /\ pos[Arc_new] = [lat |-> 0, lng |-> 0, alt |-> 0]

\* lines 22-447, with the Lua reads done
ExtractMission ==
    /\ extracted = NotExtracted
    /\ \E order \in into_iter(DOMAIN extract_atis_station_frequencies(config)) :
          extracted' = Extracted("extract", extract(config, airfields, mission_units, order))
    /\ MissionFrame

ExtractNext == ExtractMission

ExtractSpec == ExtractInit /\ [][ExtractNext]_vars

\* ================================================================ claims

Last(s) == s[Len(s)]

\* a written control message of type t whose radio block is r
IsMsg(w, t, r) == w.msg_type = t /\ w.radio_info = r

\* Every voice packet that currently exists, oldest first: written to the
\* socket, in the UDP send in flight, waiting in the channel
VoiceOf(s) == SelectSeq(s, LAMBDA p : p.kind = "voice")
VoiceInOrder ==
    udpOut \o (IF inflight.kind = "voice" THEN << inflight >> ELSE << >>) \o VoiceOf(queue)

\* C1: the packet_id stamped on the n-th submitted chunk is n modulo 2^IdBits
\* (1 on the first chunk, previous + 1 afterwards, 0 after 2^IdBits - 1), on the
\* packet start_send builds and on every packet that travels to the socket.
C1_PacketIdIsSubmissionNumber ==
    /\ nSubmitted = 0 => packet_id = 1
    /\ nSubmitted > 0 =>
          /\ lastPacket.audio_part = nSubmitted
          /\ lastPacket.packet_id = nSubmitted % IdMod
    /\ \A i \in 1..Len(VoiceInOrder) :
          VoiceInOrder[i].packet_id = VoiceInOrder[i].audio_part % IdMod

\* the chunk after the one stamped 2^IdBits - 1 was stamped 0 and was sent
C1_Witness ==
    \E i \in 1..Len(udpOut) :
        /\ udpOut[i].audio_part = IdMod
        /\ udpOut[i].packet_id = 0
        /\ i > 1 /\ udpOut[i - 1].packet_id = IdMod - 1

\* C2: the first two control messages written are Sync then the client's
\* RadioUpdate, neither is written again, and until both are written nothing
\* else is: no Update, no game RadioUpdate, no UDP packet, no timer tick taken.
C2_InitialBurstFirst ==
    /\ Len(tcpOut) >= 1 => IsMsg(tcpOut[1], "Sync", "none")
    /\ Len(tcpOut) >= 2 => IsMsg(tcpOut[2], "RadioUpdate", "client")
    /\ \A i \in 3..Len(tcpOut) :
          \/ IsMsg(tcpOut[i], "Update", "none")
          \/ IsMsg(tcpOut[i], "RadioUpdate", "game")
    /\ Len(tcpOut) < 2 =>
          /\ udpOut = << >> /\ pingsOut = 0 /\ inflight = NoPacket
          /\ ~hbResult.done => ticksLeft = MaxTicks
          /\ pc \in {"start", "send_sync", "send_radio", "done"}

\* the burst, a later message and a voice datagram have all been written
C2_Witness == Len(tcpOut) >= 3 /\ udpOut # << >>

\* C3: voice packets reach the UDP socket in submission order, none twice:
\* the submission numbers of the packets written, in flight and queued, read
\* in that order, strictly increase.
C3_VoiceOrderPreserved ==
    /\ \A i \in 1..Len(VoiceInOrder) : VoiceInOrder[i].audio_part \in 1..nSubmitted
    /\ \A i, j \in 1..Len(VoiceInOrder) :
          i < j => VoiceInOrder[i].audio_part < VoiceInOrder[j].audio_part

\* three voice packets were written with a ping among the datagrams
C3_Witness == Len(udpOut) >= 3 /\ pingsOut >= 1

\* C4: a position-update tick starts an Update exactly when the session has no
\* game_source, one of the two server flags is set and the position differs
\* from old_pos; otherwise the tick writes nothing and keeps old_pos.  An
\* Update is completed only from such a tick, and it moves old_pos to the
\* position the tick compared.
C4_UpdateCondition ==
    ~recv_voice /\ (los_enabled \/ distance_enabled) /\ pos[Arc_new] # old_pos

C4_PositionTickEmitsIffChanged ==
    /\ [][PositionTick =>
            /\ (pc' = "pos_create") <=> C4_UpdateCondition
            /\ ~C4_UpdateCondition =>
                  /\ pc' = "select" /\ outMsg' = outMsg
                  /\ tcpOut' = tcpOut /\ old_pos' = old_pos]_vars
    /\ [][(pc = "pos_create" /\ pc' \notin {"pos_create", "done"}) =>
            /\ pc' = "pos_send" /\ outMsg'.msg_type = "Update"]_vars
    /\ [][(Len(tcpOut') > Len(tcpOut) /\ Last(tcpOut').msg_type = "Update") =>
            /\ pc = "pos_send"
            /\ ~recv_voice /\ (los_enabled \/ distance_enabled)
            /\ new_pos # old_pos /\ old_pos' = new_pos]_vars
    /\ [][(old_pos # NoPos /\ old_pos' # old_pos /\ pc' # "done") =>
            (Len(tcpOut') > Len(tcpOut) /\ Last(tcpOut').msg_type = "Update")]_vars

\* an Update was written, and a later tick found nothing to send
C4_Witness ==
    /\ \E i \in 1..Len(tcpOut) : tcpOut[i].msg_type = "Update"
    /\ pc = "select" /\ ticksLeft = 0 /\ ~C4_UpdateCondition

\* C5: once a VersionMismatch message was decoded the driver has completed
\* with an error whose text holds the client's version and the version of that
\* message, and nothing more is written to either socket.
C5_VersionMismatchTerminal ==
    /\ [](rxVersion # "none" =>
            /\ pc = "done" /\ ~polling
            /\ hbResult.done /\ ~hbResult.ok
            /\ SRS_VERSION \in Range(hbResult.err)
            /\ rxVersion \in Range(hbResult.err))
    /\ [][(rxVersion = "none" /\ rxVersion' # "none") =>
            /\ lastYield' = [kind |-> "err", err |-> hbResult'.err]
            /\ UNCHANGED << tcpOut, udpOut, pingsOut >>]_vars
    /\ [][rxVersion # "none" => UNCHANGED << tcpOut, udpOut, pingsOut, pc >>]_vars

\* a VersionMismatch carrying another version arrived after packets were sent
C5_Witness ==
    /\ rxVersion \notin {"none", SRS_VERSION}
    /\ udpOut # << >> /\ queue = << >> /\ nSubmitted > Len(udpOut)

\* C6: the poll in which the driver exits on the shutdown signal yields no
\* error item.
C6_ShutdownYieldsNoError ==
    [][(exitCause = "none" /\ exitCause' = "shutdown") => lastYield'.kind # "err"]_vars

\* C7: once the shutdown signal has fired (or its sender is gone) the driver
\* eventually completes.
C7_ShutdownLeadsToExit ==
    (shutdown_signal # "armed") ~> hbResult.done

\* C8: the shutdown signal is observed only at the select!, when no write and
\* no UDP send is in flight (one that was in flight has completed by then);
\* observing it shuts the TCP write half down and completes the driver, and
\* from then on nothing is written to either socket.
C8_ShutdownHalfClosesThenExits ==
    /\ [][(exitCause = "none" /\ exitCause' = "shutdown") =>
            /\ shutdown_signal \in {"fired", "dropped"}
            /\ pc = "select" /\ outMsg = NoMessage /\ inflight = NoPacket
            /\ tcpWriteShut' /\ pc' = "done" /\ hbResult' = Ok
            /\ UNCHANGED << tcpOut, udpOut, pingsOut >>]_vars
    /\ [][exitCause = "shutdown" =>
            UNCHANGED << tcpOut, udpOut, pingsOut, pc, outMsg, inflight, tcpWriteShut >>]_vars
    /\ [](tcpWriteShut => exitCause = "shutdown")

\* the driver observed the signal after it had written packets and updates
C8_Witness ==
    /\ exitCause = "shutdown" /\ tcpWriteShut
    /\ udpOut # << >> /\ Len(tcpOut) >= 3

\* C9: when an awaited operation fails, the driver completes with that error
\* in the same poll, that poll yields the error as an error item, the failed
\* write is not on the wire, and the driver does nothing afterwards.
C9_FailureTerminatesAndSurfaces ==
    /\ [][(ioFailed = "none" /\ ioFailed' # "none") =>
            /\ polling /\ ~polling'
            /\ pc' = "done"
            /\ hbResult' = Err(io_error(ioFailed'))
            /\ lastYield' = [kind |-> "err", err |-> io_error(ioFailed')]
            /\ UNCHANGED << tcpOut, udpOut, pingsOut >>]_vars
    /\ [][ioFailed # "none" =>
            UNCHANGED << ioFailed, pc, hbResult, outMsg, inflight,
                         tcpOut, udpOut, pingsOut >>]_vars

\* a UDP send failed after earlier packets had been written
C9_Witness ==
    /\ ioFailed = "voice_sink.send"
    /\ udpOut # << >> /\ hbResult = Err(io_error("voice_sink.send"))

\* C10: the driver completes only by the shutdown signal, the end of the
\* inbound control stream, a failed await or a VersionMismatch message; a
\* timer tick, a GameMessage, the end of game_source, a completed write or a
\* sent packet never completes it.
C10_LoopExitEvents ==
    /\ [][(~hbResult.done /\ hbResult'.done) =>
            \/ exitCause' = "shutdown" /\ shutdown_signal # "armed" /\ hbResult'.ok
            \/ exitCause' = "tcp_closed" /\ pc = "select" /\ hbResult'.ok
            \/ /\ exitCause' \in {"io_error", "decode_error"}
               /\ ioFailed = "none" /\ ioFailed' # "none" /\ ~hbResult'.ok
            \/ /\ exitCause' = "version_mismatch"
               /\ rxVersion = "none" /\ rxVersion' # "none" /\ ~hbResult'.ok]_vars
    /\ [][(\/ PositionTick \/ GameTick \/ PingTick \/ GameClosed
           \/ \E g \in GameMessages : GameMessage(g)
           \/ CreateUpdate \/ PingFlush \/ VoiceRecv \/ UdpSendOk \/ TcpSendOk)
          => (~hbResult'.done /\ pc' # "done")]_vars

\* the control stream ended after ticks, pings and voice packets had passed
C10_Witness ==
    /\ exitCause = "tcp_closed"
    /\ pingsOut >= 1 /\ udpOut # << >> /\ Len(tcpOut) >= 3

\* C11: after a control message that carries a server_settings map (and after
\* which the driver still runs), los_enabled holds exactly when the map's
\* LOS_ENABLED entry is the string "True" and distance_enabled exactly when
\* its DISTANCE_ENABLED entry is the string "true"; "true" for LOS_ENABLED,
\* "True" for DISTANCE_ENABLED or a missing entry give false.
C11_MapMessages ==
    { msg \in InboundMessages : msg.has_settings /\ msg.msg_type # "VersionMismatch" }

C11_SettingsExactStrings ==
    [][(polling /\ pc = "select" /\ pc' = "select") =>
          \A msg \in C11_MapMessages :
              ControlMessage(msg) =>
                  /\ los_enabled' = (msg.LOS_ENABLED = "True")
                  /\ distance_enabled' = (msg.DISTANCE_ENABLED = "true")]_vars

\* a map set LOS only, and the position tick that followed acted on the flag
C11_Witness ==
    /\ los_enabled /\ ~distance_enabled
    /\ \E i \in 1..Len(tcpOut) : tcpOut[i].msg_type = "Update"

\* C12: a voice-ping tick starts the enqueue of a Ping exactly when the session
\* has a game_source, and the enqueue it starts appends one Ping holding the
\* client's 22-byte sguid to the voice queue; in a session without a
\* game_source no Ping is ever queued, in flight or written to the UDP socket.
C12_IsSessionPing(p) == p.kind = "ping" /\ p.sguid = sguid /\ Len(p.sguid) = 22

C12_PingIffGameSource ==
    /\ [](~recv_voice =>
            /\ pingsOut = 0 /\ inflight.kind # "ping"
            /\ \A i \in 1..Len(queue) : queue[i].kind # "ping"
            /\ pc \notin {"ping_feed", "ping_flush"})
    /\ [](\A p \in Range(queue) \cup {inflight} : p.kind = "ping" => C12_IsSessionPing(p))
    /\ [][PingTick => ((pc' = "ping_feed") <=> recv_voice)]_vars
    /\ [][(pc = "ping_feed" /\ pc' # "ping_feed") =>
            /\ pc' = "ping_flush"
            /\ Len(queue') = Len(queue) + 1
            /\ SubSeq(queue', 1, Len(queue)) = queue
            /\ C12_IsSessionPing(Last(queue'))]_vars
    /\ [][(Len(VoiceOf(queue')) # Len(queue') /\ Len(queue') > Len(queue)
            /\ Last(queue').kind = "ping")
           => pc = "ping_feed"]_vars

\* a session with a game_source has put pings on the socket, one of them
\* while voice packets were waiting
C12_Witness ==
    /\ recv_voice /\ pingsOut >= 2 /\ udpOut # << >>

\* C13: a GameMessage taken from game_source becomes last_game_msg, and nothing
\* else changes last_game_msg while the driver runs.  A relay tick starts the
\* write of one RadioUpdate built from last_game_msg when there is one, and
\* keeps it for the next tick; it writes nothing when there is none.  A game
\* RadioUpdate reaches the socket only as the write such a tick started, and a
\* session without a game_source writes no RadioUpdate but the initial one.
C13_GameRelay ==
    /\ [][\A g \in GameMessages : GameMessage(g) => last_game_msg' = g]_vars
    /\ [][(last_game_msg' # last_game_msg /\ pc' # "done") =>
            \E g \in GameMessages : GameMessage(g)]_vars
    /\ [][GameTick =>
            /\ last_game_msg' = last_game_msg
            /\ tcpOut' = tcpOut
            /\ IF last_game_msg \in GameMessages
               THEN /\ pc' = "game_send"
                    /\ outMsg'.msg_type = "RadioUpdate"
                    /\ outMsg'.radio_info = << RadioInfoFromGame(last_game_msg) >>
                    /\ outMsg'.lat_lng_position = last_game_msg
               ELSE pc' = "select" /\ outMsg' = outMsg]_vars
    /\ [][(Len(tcpOut') > Len(tcpOut) /\ IsMsg(Last(tcpOut'), "RadioUpdate", "game")) =>
            /\ pc = "game_send" /\ pc' = "select"
            /\ Len(tcpOut') = Len(tcpOut) + 1
            /\ outMsg.radio_info = << RadioInfoFromGame(last_game_msg) >>
            /\ last_game_msg \in GameMessages]_vars
    /\ [](pc = "game_send" => outMsg.radio_info = << RadioInfoFromGame(last_game_msg) >>)
    /\ [](~recv_voice =>
            /\ last_game_msg = NoGameMsg /\ pc # "game_send"
            /\ \A i \in 1..Len(tcpOut) : tcpOut[i].msg_type = "RadioUpdate" => i = 2)

\* two relay ticks in a row each wrote a RadioUpdate from the buffered message
C13_Witness ==
    /\ Len(tcpOut) = 4
    /\ IsMsg(tcpOut[3], "RadioUpdate", "game") /\ IsMsg(tcpOut[4], "RadioUpdate", "game")
    /\ last_game_msg \in GameMessages

\* C14: a voice packet that waits in the channel while the driver runs is
\* eventually written to the UDP socket, unless the driver completes first;
\* and it is written once.
C14_Queued(n) == \E i \in 1..Len(queue) : queue[i].kind = "voice" /\ queue[i].audio_part = n
C14_Written(n) == \E i \in 1..Len(udpOut) : udpOut[i].audio_part = n

C14_QueuedPacketsAreSent ==
    \A n \in 1..MaxChunks : C14_Queued(n) ~> (C14_Written(n) \/ hbResult.done)

\* C15: the VoicePacket built for a submitted chunk holds the chunk as its
\* audio_part, one frequency entry with the client's freq, modulation FM when
\* the client's modulation string is "FM" and AM for any other string, and
\* encryption None, the id of the bound unit or 0 without one, and hop_count
\* 0; so does every packet that waits in the channel.
C15_WellFormed(p, n) ==
    /\ p.kind = "voice"
    /\ p.audio_part = n
    /\ Len(p.frequencies) = 1
    /\ p.frequencies[1].freq = freq
    /\ p.frequencies[1].modulation = (IF m = "FM" THEN "FM" ELSE "AM")
    /\ p.frequencies[1].encryption = "None"
    /\ p.unit_id = (IF unit = NoUnit THEN 0 ELSE unit.id)
    /\ p.hop_count = 0

C15_VoicePacketFields ==
    /\ nSubmitted > 0 => C15_WellFormed(lastPacket, nSubmitted)
    /\ \A i \in 1..Len(queue) : C15_WellFormed(queue[i], i)

\* a chunk was submitted by a client with the modulation string "fm" and a
\* bound unit: the packet is AM and carries the unit's id
C15_Witness ==
    /\ nSubmitted > 0 /\ m = "fm" /\ unit # NoUnit
    /\ lastPacket.frequencies[1].modulation = "AM"
    /\ lastPacket.unit_id = 42 /\ lastPacket.frequencies[1].freq = 124500000

\* C16: the sguid of the session never changes and is 22 bytes long; every
\* control message written or being written carries it as client_guid, every
\* Ping carries it, and every voice packet carries it both as client_sguid and
\* as transmission_sguid.
C16_Carries(p) ==
    /\ p.kind = "voice" => (p.client_sguid = sguid /\ p.transmission_sguid = p.client_sguid)
    /\ p.kind = "ping" => p.sguid = sguid

C16_SguidStable ==
    /\ [][sguid' = sguid]_vars
    /\ [](Len(sguid) = 22)
    /\ [](\A i \in 1..Len(tcpOut) : tcpOut[i].client_guid = sguid)
    /\ [](outMsg # NoMessage => outMsg.client_guid = sguid)
    /\ [](\A p \in Range(udpOut) \cup Range(queue) \cup {inflight, lastPacket} :
              C16_Carries(p))
    /\ [][pingsOut' > pingsOut => (inflight.kind = "ping" /\ inflight.sguid = sguid)]_vars

\* a session has written a relayed RadioUpdate, pings and voice packets
C16_Witness ==
    /\ \E i \in 1..Len(tcpOut) : IsMsg(tcpOut[i], "RadioUpdate", "game")
    /\ pingsOut >= 1 /\ Len(udpOut) >= 2

\* C17: whatever the interleaving of set_position calls and position() reads,
\* a write finds no reader inside a read and a read finds no writer inside a
\* write, the position at rest is a complete written (or the initial) value,
\* and what position() returns is such a value: the position stored while the
\* read held the lock, never fields of two writes.
C17_NoTornRead ==
    /\ [](\A r \in Readers : lastRead[r] \in LockPositions \cup {NoPos})
    /\ [](lock.writer # NoThread => lock.readers = {})
    /\ [](lock.writer = NoThread => pos[Arc_new] \in LockPositions)
    /\ [][\A r \in Readers : lastRead'[r] # lastRead[r] => lastRead'[r] = pos[Arc_new]]_vars

\* two reads returned the values of two different writes, and a third write is
\* half done
C17_Witness ==
    /\ lastRead["r1"] = [lat |-> 1, lng |-> 1, alt |-> 1]
    /\ lastRead["r2"] = [lat |-> 2, lng |-> 2, alt |-> 2]
    /\ lock.writer # NoThread /\ pos[Arc_new] \notin LockPositions

\* C18: a position written through any handle of the host (a clone of the
\* Client or its position_handle) is what the driver's client and the
\* stream's client2 read next, and the write leaves sguid, name, freq, m and
\* unit alone: the value the driver compares at its next position tick, and
\* the one it puts in the Update, is the last one written.
C18_PositionShared ==
    /\ [][\A p \in Positions : SetPosition(p) =>
            /\ position(client_pos)' = p
            /\ position(client2_pos)' = p
            /\ UNCHANGED << sguid, name, freq, m, unit >>]_vars
    /\ [][pos' # pos => \E p \in Positions : SetPosition(p)]_vars
    /\ [](position(client_pos) = position(client2_pos))
    /\ [][(PositionTick /\ pc' = "pos_create") => new_pos' = pos[Arc_new]]_vars
    /\ [][CreateUpdate => outMsg'.lat_lng_position = pos[Arc_new]]_vars

\* the host moved the position and the driver's Update carried the new one
C18_Witness ==
    /\ \E i \in 1..Len(tcpOut) : tcpOut[i].msg_type = "Update"
    /\ pc = "select" /\ old_pos = pos[Arc_new] /\ old_pos # [lat |-> 0, lng |-> 0, alt |-> 0]

\* C19: once the driver has completed, poll_ready on the sink returns the
\* channel's error, and a chunk submitted all the same is refused by
\* start_send with that error: it is neither queued nor sent.
C19_SinkErrorAfterExit ==
    /\ [](hbResult.done => chan_poll_ready("tx2") = "disconnected")
    /\ [][(hbResult.done /\ nSubmitted' > nSubmitted) =>
            /\ lastSendResult' = "disconnected"
            /\ UNCHANGED << queue, parked, parkedQ, chanOpen, tcpOut, udpOut, pingsOut >>]_vars
    /\ [](hbResult.done => queue = << >> /\ inflight = NoPacket)

\* chunks were accepted while the driver ran; the one submitted after it had
\* completed was refused
C19_Witness ==
    /\ hbResult.done /\ lastSendResult = "disconnected"
    /\ nSubmitted >= 3 /\ udpOut # << >>

\* C20: the packets between the sink and the UDP socket (waiting in the
\* channel or in the send in flight) never number more than the buffer plus
\* one per sender; when the channel holds that many, poll_ready makes the
\* producer wait, and a start_send made while poll_ready is pending is refused
\* and leaves the queue as it is.
C20_Bound == ChanBuffer + Cardinality(Senders)

C20_QueueBounded ==
    /\ [](Len(queue) + (IF inflight = NoPacket THEN 0 ELSE 1) <= C20_Bound)
    /\ [](Len(queue) >= C20_Bound => chan_poll_ready("tx2") = "pending")
    /\ [](chan_poll_ready("tx2") = "ready" => Len(queue) < C20_Bound)
    /\ [][(nSubmitted' > nSubmitted /\ chan_poll_ready("tx2") = "pending") =>
            /\ lastSendResult' = "full"
            /\ UNCHANGED << queue, parked, parkedQ, chanOpen >>]_vars
    /\ [][Len(queue') > Len(queue) =>
            /\ Len(queue') = Len(queue) + 1
            /\ \E s \in Senders : chan_poll_ready(s) = "ready"]_vars

\* the channel is full to the bound, both senders are parked, and a chunk
\* submitted then was refused
C20_Witness ==
    /\ Len(queue) = C20_Bound
    /\ parked["tx"] /\ parked["tx2"]
    /\ lastSendResult = "full"

\* C21: the RadioUpdate the driver builds after the Sync has coalition Blue and
\* one radio-info block with 10 radio slots, each the default Radio, control
\* Hotas, selected 0, simultaneous_transmission true and ptt false; its unit is
\* the bound unit's name, or the client's name when no unit is bound, and its
\* unit_id is the bound unit's id, or 0 when no unit is bound.  It is the second
\* message written.
C21_IsInitialRadioUpdate(msg) ==
    /\ msg.msg_type = "RadioUpdate"
    /\ msg.coalition = "Blue"
    /\ Len(msg.radio_info) = 1
    /\ LET ri == msg.radio_info[1]
       IN /\ DOMAIN ri.radios = 1..10
          /\ \A i \in 1..10 : ri.radios[i] = Radio_default
          /\ ri.control = "Hotas"
          /\ ri.selected = 0
          /\ ri.simultaneous_transmission = TRUE
          /\ ri.ptt = FALSE
          /\ ri.unit = (IF unit = NoUnit THEN name ELSE unit.name)
          /\ ri.unit_id = (IF unit = NoUnit THEN 0 ELSE unit.id)

C21_InitialRadioUpdate ==
    /\ [](pc = "send_radio" => C21_IsInitialRadioUpdate(outMsg))
    /\ [][(Len(tcpOut) = 1 /\ Len(tcpOut') = 2) =>
            /\ pc = "send_radio"
            /\ tcpOut'[2] = Wire(outMsg)
            /\ tcpOut'[2].radio_info = "client"]_vars

\* the RadioUpdate of a client without a unit was written: it named the client
C21_Witness ==
    /\ Len(tcpOut) = 2 /\ pc = "select"
    /\ unit = NoUnit /\ RadioInfo.unit = "DCS Radio Station" /\ RadioInfo.unit_id = 0

\* C22: every extractor converts a frequency written in MHz to the Hz value
\* round(x * 1_000_000) within 1 Hz: the briefing extractor, and the ATIS,
\* CARRIER, WEATHER and BROADCAST unit-name directives.
C22_Within1Hz(hz, f) == hz - Decimal(f) * 1000 \in {-1, 0, 1}

C22_FrequencyWithin1Hz ==
    \A f \in FreqTexts :
        /\ \A n \in DirectiveNames :
              config = "ATIS " \o n \o " " \o f =>
                  /\ extracted.by = "extract_atis_station_frequencies" =>
                        C22_Within1Hz(extracted.value[n].atis, f)
                  /\ extracted.by = "extract_atis_station_config" =>
                        C22_Within1Hz(extracted.value[1].atis, f)
        /\ (config = "CARRIER Mother " \o f
              /\ extracted.by = "extract_carrier_station_config") =>
                  C22_Within1Hz(extracted.value[1].atis, f)
        /\ (config = "WEATHER Shooting Range " \o f
              /\ extracted.by = "extract_weather_station_config") =>
                  C22_Within1Hz(extracted.value[1].freq, f)
        /\ (config = "BROADCAST " \o f \o ": Bla bla"
              /\ extracted.by = "extract_custom_broadcast_config") =>
                  C22_Within1Hz(extracted.value[1].freq, f)

\* C23: the briefing extractor returns one entry for each station name that
\* an ATIS line declares, keyed by that name, with that name and no tts.  An
\* entry has a traffic frequency only if a TRAFFIC line has exactly its name
\* (and it has the one of the last such line whenever the name is one the
\* TRAFFIC expression can hold, that is, without a space); a TRAFFIC line
\* whose name no ATIS line declares adds no entry and changes nothing: the
\* result is that of the briefing without such lines.
RECURSIVE C23_LineEnd(_, _)
C23_LineEnd(t, i) ==
    IF i <= Len(t) /\ Char(t, i) # "\n" THEN C23_LineEnd(t, i + 1) ELSE i

RECURSIVE C23_Split(_, _)
C23_Split(t, i) ==
    LET e == C23_LineEnd(t, i)
    IN IF e > Len(t) THEN << SubSeq(t, i, Len(t)) >>
       ELSE << SubSeq(t, i, e - 1) >> \o C23_Split(t, e + 1)

RECURSIVE C23_Join(_)
C23_Join(ls) ==
    IF ls = << >> THEN ""
    ELSE IF Len(ls) = 1 THEN ls[1]
    ELSE ls[1] \o "\n" \o C23_Join(Tail(ls))

C23_Names == {"Batumi", "Mineralnye Vody", "Kutaisi"}
C23_Declares(l, n) == \E f \in FreqTexts : l = "ATIS " \o n \o " " \o f
C23_Traffic(l, n) == \E f \in FreqTexts : l = "TRAFFIC " \o n \o " " \o f
C23_Declared(ls, n) == \E i \in 1..Len(ls) : C23_Declares(ls[i], n)
C23_TrafficAt(ls, n) == { i \in 1..Len(ls) : C23_Traffic(ls[i], n) }
C23_Stray(ls, l) == \E n \in C23_Names : C23_Traffic(l, n) /\ ~C23_Declared(ls, n)
C23_OneWord(n) == RunEnd(n, 1, TrafficNameClass) = Len(n) + 1

C23_BriefingStations ==
    LET ls == C23_Split(config, 1)
        st == extracted.value
    IN (/\ extracted.by = "extract_atis_station_frequencies"
        /\ \A i \in 1..Len(ls) : ls[i] \in BriefingLines) =>
          /\ DOMAIN st = { n \in C23_Names : C23_Declared(ls, n) }
          /\ \A n \in DOMAIN st :
                /\ st[n].name = n
                /\ st[n].tts = None
                /\ st[n].traffic # None => C23_TrafficAt(ls, n) # {}
                /\ (C23_TrafficAt(ls, n) # {} /\ C23_OneWord(n)) =>
                      LET last == CHOOSE i \in C23_TrafficAt(ls, n) :
                                     \A j \in C23_TrafficAt(ls, n) : j <= i
                      IN \E f \in FreqTexts :
                            /\ ls[last] = "TRAFFIC " \o n \o " " \o f
                            /\ st[n].traffic = Some(mhz_to_hz_f32(f))
          /\ st = extract_atis_station_frequencies(
                     C23_Join(SelectSeq(ls, LAMBDA l : ~C23_Stray(ls, l))))

\* a briefing declared Batumi, gave it a traffic frequency, and held a TRAFFIC
\* line for Kutaisi, which it did not declare
C23_Witness ==
    /\ extracted.by = "extract_atis_station_frequencies"
    /\ C23_Split(config, 1)
          = << "TRAFFIC Kutaisi 123.45", "ATIS Batumi 131.5", "TRAFFIC Batumi 255.00" >>
    /\ DOMAIN extracted.value = {"Batumi"}
    /\ extracted.value["Batumi"] = StationConfig("Batumi", 131500000, Some(255000000), None)

\* C24: in a unit-name ATIS directive the TRAFFIC and the VOICE part are
\* optional and independent: the config has a traffic frequency exactly when
\* the name has a TRAFFIC part, and a tts exactly when it has a VOICE part
\* with a voice that is known (with or without the prefix GC: or AWS:); name
\* and ATIS frequency are those of the directive without the optional parts.
\* A unit name that has none of the directive forms gives no config from any
\* of the four unit-name extractors.
C24_GE == [provider |-> "GoogleCloud", voice |-> "en-US-Standard-E"]
C24_GD == [provider |-> "GoogleCloud", voice |-> "en-US-Standard-D"]
C24_AB == [provider |-> "AmazonWebServices", voice |-> "Brian"]

C24_Tts(v) ==
    CASE v = "" -> None
      [] v = ", VOICE en-US-Standard-E" -> Some(C24_GE)
      [] v = ", VOICE GC:en-US-Standard-D" -> Some(C24_GD)
      [] v = ",VOICE AWS:Brian" -> Some(C24_AB)
      [] v = ", VOICE Klingon" -> None

C24_OptionalPartsIndependent ==
    /\ extracted.by = "extract_atis_station_config" =>
          \A n \in DirectiveNames, f \in FreqTexts, t \in TrafficParts, v \in VoiceParts :
              config = "ATIS " \o n \o " " \o f \o t \o v =>
                  /\ Len(extracted.value) = 1
                  /\ extracted.value[1].name = n
                  /\ extract_atis_station_config("ATIS " \o n \o " " \o f)
                        = Some(StationConfig(n, extracted.value[1].atis, None, None))
                  /\ (extracted.value[1].traffic # None) <=> (t # "")
                  /\ extracted.value[1].tts = C24_Tts(v)
    /\ (config \in OtherConfigs /\ extracted # NotExtracted
          /\ extracted.by # "extract_atis_station_frequencies") =>
              extracted.value = None

\* the directive with both optional parts gave the config of the source's test
C24_Witness ==
    /\ extracted.by = "extract_atis_station_config"
    /\ config = "ATIS Kutaisi 251.000, TRAFFIC 123.45, VOICE en-US-Standard-E"
    /\ extracted.value
          = Some(StationConfig("Kutaisi", 251000000, Some(123450000), Some(C24_GE)))

\* C25: a control message without a server_settings map (after which the
\* driver still runs) leaves los_enabled and distance_enabled as they were; a
\* control message with a map sets both flags from the map alone, whatever
\* they were: a key missing from the map makes its flag false.
C25_OtherMessages == { msg \in InboundMessages : msg.msg_type # "VersionMismatch" }

C25_SettingsFrame ==
    [][(polling /\ pc = "select" /\ pc' = "select") =>
          \A msg \in C25_OtherMessages :
              ControlMessage(msg) =>
                  IF msg.has_settings
                  THEN /\ los_enabled' = (msg.LOS_ENABLED = "True")
                       /\ distance_enabled' = (msg.DISTANCE_ENABLED = "true")
                       /\ msg.LOS_ENABLED = "absent" => ~los_enabled'
                       /\ msg.DISTANCE_ENABLED = "absent" => ~distance_enabled'
                  ELSE /\ los_enabled' = los_enabled
                       /\ distance_enabled' = distance_enabled]_vars

\* a flag had been set (an Update was written on its strength) and a later map
\* cleared both flags while the driver went on
C25_Witness ==
    /\ \E i \in 1..Len(tcpOut) : tcpOut[i].msg_type = "Update"
    /\ ~los_enabled /\ ~distance_enabled
    /\ pc = "select" /\ ticksLeft > 0

\* C26: the Ping the voice-ping arm has put into the channel never leaves the
\* driver waiting inside tx.send(..) for the channel's receiver: at the flush
\* of the send the sender tx is ready, whatever the channel holds.
C26_PingEnqueueNeverWaits ==
    pc = "ping_flush" => chan_poll_ready("tx") # "pending"

\* C27: once the heartbeat future has completed, no poll_next call polls it
\* again: a poll of the session stream made after the driver's termination was
\* reported does not resume the completed future.
C27_CompletedDriverNotPolledAgain ==
    [][hbResult.done => lastYield'.kind # "panic"]_vars

\* C28: old_pos, the baseline of the comparison at a position tick, is the
\* position carried by the last position-bearing message the driver wrote from
\* its client: when the write of the initial RadioUpdate or of an Update
\* completes, old_pos becomes the lat_lng_position of that message, whatever
\* the host wrote meanwhile (and old_pos changes at no other step).
C28_BaselineIsSentPosition ==
    [][/\ (pc \in {"send_radio", "pos_send"} /\ pc' = "select") =>
              old_pos' = outMsg.lat_lng_position
       /\ (pc' = "select" /\ old_pos' # old_pos) => pc \in {"send_radio", "pos_send"}]_vars

\* C29: the driver moves only inside a poll of the session stream.  Until the
\* stream is polled for the first time the driver is at its start and nothing
\* has been written to either socket; while no poll_next call is inside the
\* heartbeat, the driver stays where it is and no control message, voice
\* packet or ping is written; and a chunk submitted meanwhile is appended to
\* the channel when the channel takes it and is not written to the UDP socket.
C29_NeverPolled == lastYield.kind = "none" /\ ~polling

C29_ProgressOnlyWhilePolled ==
    /\ [](C29_NeverPolled =>
            pc = "start" /\ tcpOut = << >> /\ udpOut = << >> /\ pingsOut = 0)
    /\ [][~polling =>
            UNCHANGED << pc, outMsg, inflight, tcpOut, udpOut, pingsOut, hbResult >>]_vars
    /\ [][(~polling /\ nSubmitted' > nSubmitted) =>
            /\ udpOut' = udpOut
            /\ queue' = IF lastSendResult' = "ok" THEN Append(queue, lastPacket')
                        ELSE queue]_vars

\* the stream was polled, the driver took a chunk and its UDP send is in
\* flight; the poll returned, and the chunks submitted since wait in the
\* channel, with only the handshake on the wire
C29_Witness ==
    /\ ~polling /\ lastYield.kind = "pending"
    /\ pc = "udp_send" /\ inflight.kind = "voice"
    /\ Len(queue) = ChanBuffer + 1 /\ lastSendResult = "ok"
    /\ udpOut = << >> /\ Len(tcpOut) = 2

\* C30: every start_send call takes the current packet_id for its packet and
\* advances the counter by one (wrapping), whether the channel takes the
\* packet or refuses it; no other step, the enqueue of a Ping included, moves
\* the counter, and a Ping carries no packet id.  The voice packets that
\* reached the channel (waiting, in flight or written) and were submitted less
\* than one turn of the counter apart have different ids.
C30_Reached ==
    udpOut \o (IF inflight # NoPacket /\ inflight.kind = "voice" THEN << inflight >> ELSE << >>)
           \o SelectSeq(queue, LAMBDA p : p.kind = "voice")

C30_Apart(p, q) ==
    IF p.audio_part > q.audio_part THEN p.audio_part - q.audio_part
    ELSE q.audio_part - p.audio_part

C30_EveryCallConsumesOneId ==
    /\ [][nSubmitted' > nSubmitted =>
            /\ lastPacket'.packet_id = packet_id
            /\ packet_id' = wrapping_add_1(packet_id)
            /\ lastSendResult' \in {"ok", "full", "disconnected"}]_vars
    /\ [][nSubmitted' = nSubmitted => packet_id' = packet_id]_vars
    /\ [][Len(queue') > Len(queue) /\ Last(queue').kind = "ping" =>
            packet_id' = packet_id /\ Last(queue') = [kind |-> "ping", sguid |-> sguid]]_vars
    /\ [](\A i, j \in 1..Len(C30_Reached) :
            (i # j /\ C30_Apart(C30_Reached[i], C30_Reached[j]) < IdMod) =>
                C30_Reached[i].packet_id # C30_Reached[j].packet_id)

\* a chunk was refused by the full channel and its id is spent: the counter
\* stands one past the id of the refused packet, which is in no queue, while
\* two packets with different ids wait in the channel
C30_Witness ==
    /\ lastSendResult = "full"
    /\ packet_id = wrapping_add_1(lastPacket.packet_id)
    /\ \A i \in 1..Len(C30_Reached) : C30_Reached[i].audio_part # lastPacket.audio_part
    /\ Len(queue) = 2 /\ queue[1].packet_id # queue[2].packet_id

\* C31: a shutdown signal whose sender was dropped without firing is a
\* shutdown to the driver.  At the select! the shutdown arm is ready for it, so
\* that a poll does not return Pending from the select! while the sender is
\* gone; and the step by which the driver observes it is the step of a fired
\* signal: the TCP write half is shut down, the loop is left and the driver
\* completes with Ok(()), which poll_next reports as it reports any completion.
C31_DroppedSenderShutsDown ==
    /\ []((polling /\ pc = "select" /\ shutdown_signal = "dropped") => ENABLED Shutdown)
    /\ [][(polling /\ pc = "select" /\ pc' = "select" /\ lastYield'.kind = "pending") =>
            shutdown_signal = "armed"]_vars
    /\ [][(shutdown_signal = "dropped" /\ exitCause = "none" /\ exitCause' = "shutdown") =>
            /\ tcpWriteShut' /\ pc' = "done" /\ hbResult' = Ok
            /\ lastYield' = poll_next_heartbeat(Ok)
            /\ ~chanOpen' /\ ~polling'
            /\ UNCHANGED << tcpOut, udpOut, pingsOut, shutdown_signal >>]_vars
    /\ [](shutdown_signal = "dropped" /\ hbResult.done /\ hbResult.ok => exitCause \in {"shutdown", "tcp_closed"})

\* the sender was dropped, never fired, and the driver left on it after it had
\* written the handshake
C31_Witness ==
    /\ shutdown_signal = "dropped"
    /\ exitCause = "shutdown" /\ tcpWriteShut /\ hbResult = Ok
    /\ Len(tcpOut) >= 2

\* C32: the baseline old_pos moves only when the write of an Update (or of the
\* initial RadioUpdate) completes: a tick that sends nothing, a control message
\* and a position write leave it as it is.  So a position tick of a session
\* without a game_source, taken with a flag set and the position different
\* from the baseline, starts an Update, however long ago the position was
\* changed; the Update is the next control message the driver hands to the
\* socket.
C32_Differs == position(client_pos) # old_pos

C32_ChangeNotForgotten ==
    /\ [][(pc = "select" /\ pc' = "select") => old_pos' = old_pos]_vars
    /\ [][(old_pos' # old_pos /\ ~hbResult'.done) =>
            /\ pc \in {"send_radio", "pos_send"}
            /\ tcpOut' = Append(tcpOut, Wire(outMsg))]_vars
    /\ [][(PositionTick /\ ~recv_voice /\ (los_enabled \/ distance_enabled) /\ C32_Differs) =>
            pc' = "pos_create"]_vars
    /\ [][(pc = "pos_create" /\ pc' # "pos_create") =>
            /\ pc' = "pos_send" /\ outMsg'.msg_type = "Update"
            /\ UNCHANGED << old_pos, tcpOut >>]_vars
    /\ [][(pc = "pos_send" /\ pc' # "pos_send") =>
            \/ tcpOut' = Append(tcpOut, Wire(outMsg)) /\ Last(tcpOut').msg_type = "Update"
            \/ ioFailed' = "messages_sink.send"]_vars

\* the position was moved away from the baseline and a tick went by without
\* an Update; a flag was then set, and the last tick found the old difference
\* and started the Update
C32_Witness ==
    /\ ~recv_voice /\ pc = "pos_create"
    /\ ticksLeft = 0 /\ Len(tcpOut) = 2
    /\ new_pos # old_pos /\ los_enabled /\ ~distance_enabled

\* C33: a poll_next call that returns an item of the inbound UDP stream (a
\* decoded packet or the stream's error) does not poll the heartbeat: the
\* driver is where it was, with what it had written, and no poll of it is
\* under way.  The driver moves only inside a poll of the heartbeat, and such
\* a poll is entered only by a call that returns no inbound item.
C33_InboundYields ==
    { Yield("packet", << >>), Yield("err", io_error("voice_stream.poll_next")) }

C33_DriverState ==
    << pc, hbResult, exitCause, ioFailed, outMsg, inflight, old_pos, new_pos,
       last_game_msg, los_enabled, distance_enabled, game_terminated,
       tcpWriteShut, queue, parked, parkedQ, chanOpen, ticksLeft,
       tcpOut, udpOut, pingsOut >>

C33_InboundItemFirst ==
    /\ [][(~polling /\ lastYield' # lastYield /\ lastYield' \in C33_InboundYields) =>
            ~polling' /\ UNCHANGED C33_DriverState]_vars
    /\ [][(~polling /\ polling') => lastYield' \notin C33_InboundYields]_vars
    /\ [][pc' # pc => polling]_vars
    /\ [](polling => lastYield \notin C33_InboundYields)

\* the driver waits at the select! with a packet to send and the shutdown
\* signal fired, and the poll made then returned an inbound packet: the driver
\* took neither
C33_Witness ==
    /\ lastYield = Yield("packet", << >>) /\ ~polling
    /\ pc = "select" /\ queue # << >> /\ shutdown_signal = "fired"
    /\ ~hbResult.done

\* C34: the station list extract builds has at most one Airfield station per
\* airfield.  An airfield of the terrain that the briefing declares has the
\* station made of the briefing (its frequency, the default voice, the
\* airdrome's own position), whatever unit names it too; an airfield that only
\* units name has the station of the first such unit; an ATIS directive, of
\* the briefing or of a unit, whose name is no airfield of the terrain makes
\* no station, and the list is built all the same.  The list holds the
\* Airfield stations first, then the carriers, then the broadcasts, then the
\* weather stations.
C34_Rank(st) ==
    CASE st.transmitter.kind = "Airfield" -> 1
      [] st.transmitter.kind = "Carrier" -> 2
      [] st.transmitter.kind = "Custom" -> 3
      [] st.transmitter.kind = "Weather" -> 4

C34_Directive(u) == extract_atis_station_config(u.name)
C34_UnitsNaming(n) ==
    { i \in 1..Len(mission_units) :
        C34_Directive(mission_units[i]) # None /\ C34_Directive(mission_units[i])[1].name = n }
C34_For(st, n) ==
    { i \in 1..Len(st) : st[i].transmitter.kind = "Airfield" /\ st[i].name = n }
C34_OfUnit(st, id) ==
    { i \in 1..Len(st) :
        IF st[i].transmitter.kind = "Airfield"
        THEN st[i].transmitter.airfield.position = [of |-> "unit", id |-> id]
        ELSE st[i].transmitter.unit_id = id }

C34_OneStationPerAirfield ==
    extracted.by = "extract" =>
        LET st == extracted.value
            briefing == extract_atis_station_frequencies(config)
        IN /\ \A i, j \in 1..Len(st) : i < j => C34_Rank(st[i]) <= C34_Rank(st[j])
           /\ \A i \in 1..Len(st) :
                 st[i].transmitter.kind = "Airfield" =>
                     /\ st[i].name \in airfields
                     /\ st[i].transmitter.airfield.name = st[i].name
                     /\ C34_For(st, st[i].name) = {i}
           /\ \A n \in airfields :
                 IF n \in DOMAIN briefing
                 THEN \E i \in C34_For(st, n) :
                        /\ st[i].freq = briefing[n].atis
                        /\ st[i].tts = default_voice
                        /\ st[i].transmitter.airfield.position.of = "airdrome"
                        /\ \A k \in C34_UnitsNaming(n) : C34_OfUnit(st, k) = {}
                 ELSE IF C34_UnitsNaming(n) # {}
                 THEN \E i \in C34_For(st, n) :
                        LET k == CHOOSE k \in C34_UnitsNaming(n) :
                                    \A l \in C34_UnitsNaming(n) : k <= l
                        IN /\ st[i].freq = C34_Directive(mission_units[k])[1].atis
                           /\ C34_OfUnit(st, k) = {i}
                           /\ \A l \in C34_UnitsNaming(n) \ {k} : C34_OfUnit(st, l) = {}
                 ELSE C34_For(st, n) = {}
           /\ \A k \in 1..Len(mission_units) :
                 (C34_Directive(mission_units[k]) # None
                    /\ C34_Directive(mission_units[k])[1].name \notin airfields) =>
                        C34_OfUnit(st, k) = {}

\* Kutaisi is declared by the briefing and by a unit, a second unit names an
\* airfield the terrain does not have, a third is a carrier: the list is the
\* two stations of the briefing, Kutaisi with the briefing's frequency, and
\* the carrier after them
C34_Witness ==
    /\ extracted.by = "extract"
    /\ config = "ATIS Batumi 131.5\nATIS Kutaisi 251.000\nTRAFFIC Kutaisi 123.45"
    /\ airfields = {"Batumi", "Kutaisi", "Mineralnye Vody"}
    /\ mission_units = << MissionUnit(1, "ATIS Kutaisi 131.5, VOICE AWS:Brian"),
                          MissionUnit(2, "ATIS Atlantis 145"),
                          MissionUnit(3, "CARRIER Mother 251") >>
    /\ Len(extracted.value) = 3
    /\ extracted.value[1].name = "Kutaisi" /\ extracted.value[1].freq = 251000000
    /\ extracted.value[2].name = "Batumi" /\ extracted.value[2].freq = 131500000
    /\ extracted.value[3].transmitter.kind = "Carrier"

====
